---- MODULE Spec2Model ----
(***************************************************************************)
(* A model of the storage / ingestion / scoring core of the RAG prototype: *)
(* the PostgreSQL connectors (Xenova and OpenAI variants), the schema and  *)
(* SQL functions of db-init/init.sql, the PostgreSQLSearchService, the     *)
(* legacy PostgreSQLRetriever and the tool handlers that call them.        *)
(*                                                                         *)
(* Numbers are fixed point: similarities and thresholds in hundredths,     *)
(* weights in tenths, BM25 scores in thousandths.  A text is a sequence of *)
(* one-character strings.  An embedding is a record of its true length     *)
(* (384, 1536, ...) and a direction, an integer vector of norm 5 standing  *)
(* for the normalised vector the model returns.                            *)
(***************************************************************************)
EXTENDS Integers, Sequences, FiniteSets, TLC

VARIABLES
    provider,     \* "xenova" | "openai": the connector variant constructed
    lexicalInstalled, \* does the database have bm25_score(text, text)?
    documents,    \* the rows of table documents, in creation order
    bm25_stats,   \* the row of table bm25_stats
    nextId,       \* the id the table assigns to the next inserted row
    tools,        \* MCPServer.tools: the names of the registered tools
    last,         \* the outcome of the last call, until the caller takes it
    xenova,       \* one XenovaEmbeddingService: its pipeline field and the calls in flight
    retriever,    \* one legacy retriever: its maps or table, its files and the calls in flight
    connection,   \* one PostgreSQLConnection: its pool and the call in flight
    server,       \* mcp/server.ts: the global connector and the tool calls in flight
    ragService,   \* one RAGService: its initializationPromise, components and calls in flight
    stdio         \* one StdioMCPServer: requests received, tool calls in flight, responses written

vars == <<provider, lexicalInstalled, documents, bm25_stats, nextId, tools, last,
         xenova, retriever, connection, server, ragService, stdio>>

\* what a deployment fixes: the embedding provider, and whether the database
\* has the function bm25_score(text, text) that bm25Search calls (db-init
\* creates only the five-argument bm25_score)
config == <<provider, lexicalInstalled>>

\* The components beside the document store, and for each of them the
\* variables its own steps leave alone
aside == <<xenova, retriever, connection, server, ragService, stdio>>

beside_xenova == <<config, tools, documents, bm25_stats, nextId, last, retriever, connection, server, ragService, stdio>>

beside_retriever == <<config, tools, documents, bm25_stats, nextId, last, xenova, connection, server, ragService, stdio>>

beside_connection == <<config, tools, documents, bm25_stats, nextId, last, xenova, retriever, server, ragService, stdio>>

beside_server == <<config, tools, documents, bm25_stats, nextId, last, xenova, retriever, connection, ragService, stdio>>

beside_ragService == <<config, tools, documents, bm25_stats, nextId, last, xenova, retriever, connection, server, stdio>>

beside_stdio == <<config, tools, documents, bm25_stats, nextId, last, xenova, retriever, connection, server, ragService>>

----------------------------------------------------------------------------
(* Bounds of the model *)

MaxDocs == 3       \* rows the documents table may hold
MaxBatch == 3      \* documents of one addDocuments call, rows of one CSV file
MaxIds == 2        \* ids handed out before the model stops inserting
MaxRows == 6       \* rows of a file whose rows all fail validation

(* Program constants *)

XenovaDimensions == 384      \* XenovaEmbeddingService.dimensions
OpenAIDimensions == 1536     \* OpenAIEmbeddingService.dimensions (default model)
ColumnDimensions == 384      \* documents.embedding vector(384)
TitleMaxLength == 255        \* documents.title VARCHAR(255)
\* batchSize is 50 (Xenova) and 100 (OpenAI) in the source; the model scales
\* both down so that one call spans several chunks within MaxBatch documents.
XenovaBatchSize == 2
OpenAIBatchSize == 2
ErrorsShown == 5             \* import_from_csv of RAGTools: errors?.slice(0, 5)

----------------------------------------------------------------------------
(* Generic helpers *)

Min(a, b) == IF a < b THEN a ELSE b
Max(a, b) == IF a > b THEN a ELSE b

RECURSIVE SumSeq(_)
SumSeq(s) == IF s = <<>> THEN 0 ELSE Head(s) + SumSeq(Tail(s))

RECURSIVE CountSeq(_, _)
CountSeq(s, x) ==
    IF s = <<>> THEN 0
    ELSE (IF Head(s) = x THEN 1 ELSE 0) + CountSeq(Tail(s), x)

Range(s) == { s[i] : i \in 1..Len(s) }

\* The one element of a singleton set.  Written { F(x) : x \in {e} }, the set
\* gives e a name that stands for its value in F.
Once(S) == CHOOSE r \in S : TRUE

\* all sequences over S of length 1..n
SeqsUpTo(S, n) == UNION { [1..k -> S] : k \in 1..n }

----------------------------------------------------------------------------
(* Text: JavaScript and SQL string functions on sequences of characters *)

SP == " "

\* String.prototype.trim
RECURSIVE TrimLeft(_)
TrimLeft(s) == IF s # <<>> /\ Head(s) = SP THEN TrimLeft(Tail(s)) ELSE s

RECURSIVE TrimRight(_)
TrimRight(s) ==
    IF s # <<>> /\ s[Len(s)] = SP THEN TrimRight(SubSeq(s, 1, Len(s) - 1)) ELSE s

trim(s) == TrimRight(TrimLeft(s))

\* lower(): the alphabet of the model has one upper-case letter
LowerChar(c) == IF c = "A" THEN "a" ELSE c
lower(s) == [i \in 1..Len(s) |-> LowerChar(s[i])]

\* string_to_array(s, ' '): every space separates two pieces, pieces may be
\* empty; the empty string gives the empty array
RECURSIVE SplitAcc(_, _)
SplitAcc(s, cur) ==
    IF s = <<>> THEN <<cur>>
    ELSE IF Head(s) = SP THEN <<cur>> \o SplitAcc(Tail(s), <<>>)
    ELSE SplitAcc(Tail(s), Append(cur, Head(s)))

string_to_array(s) == IF s = <<>> THEN <<>> ELSE SplitAcc(s, <<>>)

NonEmptyPiece(p) == p # <<>>

\* array_remove(a, '')
array_remove(a) == SelectSeq(a, NonEmptyPiece)

\* to_tsvector(content): the lexemes of the text in position order
to_tsvector(s) == array_remove(string_to_array(lower(s)))

\* word_cnt of update_document_bm25: array_length of the split text, NULL
\* (modelled as 0) for the empty array
WordCount(s) == Len(string_to_array(s))

----------------------------------------------------------------------------
(* Embeddings *)

NoEmbedding == [present |-> FALSE, len |-> 0, dir |-> <<0, 0>>]
Embedding(n, d) == [present |-> TRUE, len |-> n, dir |-> d]

\* The feature-extraction model with normalize: true: a deterministic map from
\* the text to a unit vector.  The table stands for the network.
ModelOutput(text) ==
    LET toks == to_tsvector(text)
        hasA == \E i \in 1..Len(toks) : toks[i] = <<"a">>
        hasB == \E i \in 1..Len(toks) : toks[i] = <<"b">>
    IN  IF hasA /\ hasB THEN <<4, 3>>
        ELSE IF hasA THEN <<5, 0>>
        ELSE IF hasB THEN <<0, 5>>
        ELSE <<3, 4>>

getDimensions(p) == IF p = "xenova" THEN XenovaDimensions ELSE OpenAIDimensions

\* generateEmbedding(text) of the two services; backendLen is the length of
\* the vector the backend (pipeline / API) returns, backendUp whether it answers.
\* Result: [ok, error, vector, backendCalled] ; ok = FALSE is a rejected
\* promise, backendCalled says whether initializePipeline / pipeline(...) or
\* openai.embeddings.create(...) was reached.
EmbeddingFailure(error, backendCalled) ==
    [ok |-> FALSE, error |-> error, vector |-> NoEmbedding,
     backendCalled |-> backendCalled]

\* the same service with the text check moved after the backend call
generateEmbedding_backend_first(p, text, backendUp, backendLen) ==
    IF ~backendUp
    THEN EmbeddingFailure("Failed to generate embedding", TRUE)
    ELSE IF text = <<>> \/ trim(text) = <<>>
    THEN EmbeddingFailure("Text cannot be empty", TRUE)
    ELSE IF p = "xenova" /\ backendLen # XenovaDimensions
    THEN EmbeddingFailure("Failed to generate embedding", TRUE)
    ELSE [ok |-> TRUE, error |-> "",
          vector |-> Embedding(backendLen, ModelOutput(trim(text))),
          backendCalled |-> TRUE]

generateEmbedding(p, text, backendUp, backendLen) ==
    IF text = <<>> \/ trim(text) = <<>>
    THEN EmbeddingFailure("Text cannot be empty", FALSE)
    ELSE IF ~backendUp
    THEN EmbeddingFailure("Failed to generate embedding", TRUE)
    ELSE IF p = "xenova" /\ backendLen # XenovaDimensions
    THEN EmbeddingFailure("Failed to generate embedding", TRUE)
    ELSE [ok |-> TRUE, error |-> "",
          vector |-> Embedding(backendLen, ModelOutput(trim(text))),
          backendCalled |-> TRUE]

IsValidText(t) == t # <<>> /\ trim(t) # <<>>

\* generateEmbeddings(texts): blank entries are filtered out, the result is
\* aligned with the filtered list; no length check in either service
generateEmbeddings(p, texts, backendUp, backendLen) ==
    LET validTexts == SelectSeq(texts, IsValidText)
    IN  IF texts = <<>> THEN [ok |-> TRUE, error |-> "", vectors |-> <<>>]
        ELSE IF validTexts = <<>>
        THEN [ok |-> FALSE, error |-> "No valid texts provided", vectors |-> <<>>]
        ELSE IF ~backendUp
        THEN [ok |-> FALSE, error |-> "Failed to generate embeddings", vectors |-> <<>>]
        ELSE [ok |-> TRUE, error |-> "",
              vectors |-> [i \in 1..Len(validTexts) |->
                             Embedding(backendLen, ModelOutput(trim(validTexts[i])))]]

\* cosine similarity of two embeddings in hundredths: both directions have
\* norm 5, so cos = dot / 25
Dot(u, v) == u[1] * v[1] + u[2] * v[2]
CosineSimilarity(e, q) == Dot(e.dir, q.dir) * 4

----------------------------------------------------------------------------
(* The database: table documents, table bm25_stats and the trigger *)

\* A title is a text; <<>> is the NULL title (document.title || null).  The
\* character "L" stands for a run of 256 letters, so that a text too long for
\* VARCHAR(255) has a short representation.
NoTitle == <<>>
CharWidth(c) == IF c = "L" THEN 256 ELSE 1
StrLength(s) == SumSeq([i \in 1..Len(s) |-> CharWidth(s[i])])

DB(docs, stats, nid) == [documents |-> docs, bm25_stats |-> stats, nextId |-> nid]

Positive(n) == n > 0

\* update_bm25_stats(): COUNT(*) and AVG(word_count) over the rows with
\* word_count > 0; the average is kept as the exact fraction sum / count
\* (COALESCE(avg, 0) is 0 / 1)
update_bm25_stats(docs) ==
    LET wcs == SelectSeq([i \in 1..Len(docs) |-> docs[i].word_count], Positive)
    IN  [total_documents |-> Len(wcs),
         avg_num |-> SumSeq(wcs),
         avg_den |-> IF Len(wcs) = 0 THEN 1 ELSE Len(wcs)]

\* update_document_bm25(doc_id): sets word_count (tsvector_content is derived
\* from content by to_tsvector and not stored separately in the model)
update_document_bm25(docs, id) ==
    [i \in 1..Len(docs) |->
        IF docs[i].id = id
        THEN [docs[i] EXCEPT !.word_count = WordCount(docs[i].content)]
        ELSE docs[i]]

\* trigger documents_bm25_update: AFTER INSERT OR UPDATE OF content
trigger_update_bm25(db, id) ==
    LET docs == update_document_bm25(db.documents, id)
    IN  [db EXCEPT !.documents = docs, !.bm25_stats = update_bm25_stats(docs)]

\* Would the table accept this row?  vector(384) rejects any other length
\* (and the empty vector), VARCHAR(255) a longer title, NOT NULL a null content.
RowAccepted(title, embedding) ==
    /\ StrLength(title) <= TitleMaxLength
    /\ (embedding.present => embedding.len = ColumnDimensions)

\* INSERT INTO documents (title, content, metadata, embedding, ...) RETURNING id
\* The statement names no id: the table assigns one.  Result [ok, db, id].
InsertDocument(db, title, content, embedding) ==
    IF ~RowAccepted(title, embedding)
    THEN [ok |-> FALSE, db |-> db, id |-> 0]
    ELSE LET row == [id |-> db.nextId, title |-> title, content |-> content,
                     embedding |-> embedding, word_count |-> 0]
             db1 == [db EXCEPT !.documents = Append(db.documents, row),
                               !.nextId = db.nextId + 1]
         IN  [ok |-> TRUE, db |-> trigger_update_bm25(db1, row.id), id |-> row.id]

\* DELETE FROM documents WHERE id = $1 : no trigger fires on DELETE
DeleteRows(docs, id) ==
    LET keep(r) == r.id # id IN SelectSeq(docs, keep)

RowCount(docs, id) == Cardinality({ i \in 1..Len(docs) : docs[i].id = id })

\* SELECT COUNT(*) FROM documents
getDocumentCount(docs) == Len(docs)

\* SELECT * FROM documents WHERE id = $1
HasDocument(docs, id) == \E i \in 1..Len(docs) : docs[i].id = id
getDocument(docs, id) == docs[CHOOSE i \in 1..Len(docs) : docs[i].id = id]

----------------------------------------------------------------------------
(* DatabaseConnector.validateDocument *)

\* A title that is not a string (a number, say): the one-character text "#"
\* stands for such a value
NotAString == <<"#">>

validateDocument(doc) ==
    IF doc.content = <<>> THEN "Document content is required and must be a string"
    ELSE IF trim(doc.content) = <<>> THEN "Document content cannot be empty"
    ELSE IF doc.title = NotAString THEN "Document title must be a string"
    ELSE "ok"

\* An input document of addDocument / addDocuments
Doc(content, title, embedding) ==
    [content |-> content, title |-> title, embedding |-> embedding]

----------------------------------------------------------------------------
(* PostgreSQLConnection.transaction and the chunk loop of addDocuments *)

\* Faults the environment can inject into the processing of one chunk:
\*   "embed"  the embedding backend does not answer
\*   "begin"  BEGIN fails (the connection is gone)
\*   "commit" COMMIT fails
FaultKinds == {"none", "embed", "begin", "commit"}

\* The state of an open transaction: the uncommitted database, whether a
\* statement has failed (PostgreSQL then refuses every later statement and
\* turns COMMIT into ROLLBACK, without an error), and the counters of
\* addDocuments, which live outside the transaction.
Tx(db, aborted, imported, failed, errors) ==
    [db |-> db, aborted |-> aborted, imported |-> imported, failed |-> failed,
     errors |-> errors]

\* client.query(INSERT ...) inside the transaction
TxInsert(tx, doc, embedding) ==
    LET r == InsertDocument(tx.db, doc.title, doc.content, embedding)
    IN  IF tx.aborted \/ ~r.ok
        THEN [tx EXCEPT !.aborted = TRUE, !.failed = tx.failed + 1,
                        !.errors = Append(tx.errors, "Document")]
        ELSE [tx EXCEPT !.db = r.db, !.imported = tx.imported + 1]

\* embeddings[embeddingIndex]: undefined past the end, stored as NULL
Nth(embeddings, idx) ==
    IF idx \in 1..Len(embeddings) THEN embeddings[idx] ELSE NoEmbedding

\* The for loop over the batch of PostgreSQLXenovaConnector.addDocuments;
\* idx is embeddingIndex + 1
RECURSIVE XenovaLoop(_, _, _, _)
XenovaLoop(tx, batch, embeddings, idx) ==
    IF batch = <<>> THEN tx
    ELSE LET document == Head(batch)
         IN  IF validateDocument(document) # "ok"
             THEN XenovaLoop([tx EXCEPT !.failed = tx.failed + 1,
                                        !.errors = Append(tx.errors, "Document")],
                             Tail(batch), embeddings, idx)
             ELSE IF document.embedding.present
             THEN Once({ XenovaLoop(t, Tail(batch), embeddings, idx) :
                           t \in {TxInsert(tx, document, document.embedding)} })
             ELSE Once({ XenovaLoop(t, Tail(batch), embeddings, idx + 1) :
                           t \in {TxInsert(tx, document, Nth(embeddings, idx))} })

\* The for loop over the batch of PostgreSQLConnector.addDocuments (OpenAI):
\* one generateEmbedding call per document, inside the per-document try
RECURSIVE OpenAILoop(_, _, _)
OpenAILoop(tx, batch, backendUp) ==
    IF batch = <<>> THEN tx
    ELSE LET document == Head(batch)
             e == generateEmbedding("openai", document.content, backendUp,
                                    OpenAIDimensions)
             fail == [tx EXCEPT !.failed = tx.failed + 1,
                                !.errors = Append(tx.errors, "Document")]
         IN  IF validateDocument(document) # "ok"
             THEN OpenAILoop(fail, Tail(batch), backendUp)
             ELSE IF document.embedding.present
             THEN Once({ OpenAILoop(t, Tail(batch), backendUp) :
                           t \in {TxInsert(tx, document, document.embedding)} })
             ELSE IF ~e.ok
             THEN OpenAILoop(fail, Tail(batch), backendUp)
             ELSE Once({ OpenAILoop(t, Tail(batch), backendUp) :
                           t \in {TxInsert(tx, document, e.vector)} })

LacksEmbedding(doc) == ~doc.embedding.present

\* One iteration of the chunk loop: transaction(callback) in try / catch.
\* acc = [db, imported, failed, errors, rolledBack, log] is the state before
\* the chunk; rolledBack says whether this chunk's transaction was rolled back
\* (by the catch block of transaction(), or by COMMIT in an aborted
\* transaction) or never began.
ProcessChunk(p, acc, batch, fault) ==
    LET wholeBatchFails ==
            [acc EXCEPT !.failed = acc.failed + Len(batch),
                        !.errors = Append(acc.errors, "Batch"),
                        !.rolledBack = TRUE]
        tx0 == Tx(acc.db, FALSE, acc.imported, acc.failed, acc.errors)
        textsToEmbed ==
            LET lacking == SelectSeq(batch, LacksEmbedding)
            IN  [i \in 1..Len(lacking) |-> lacking[i].content]
        emb == generateEmbeddings("xenova", textsToEmbed, fault # "embed",
                                  XenovaDimensions)
        callback == IF p = "xenova"
                    THEN XenovaLoop(tx0, batch, emb.vectors, 1)
                    ELSE OpenAILoop(tx0, batch, fault # "embed")
        counted(tx1) == [acc EXCEPT !.imported = tx1.imported,
                                    !.failed = tx1.failed,
                                    !.errors = tx1.errors,
                                    !.rolledBack = fault = "commit" \/ tx1.aborted]
    IN  IF fault = "begin" THEN wholeBatchFails
        ELSE IF p = "xenova" /\ ~emb.ok THEN wholeBatchFails
        ELSE Once({
             IF fault = "commit"
             \* the callback has run and counted; COMMIT throws, the catch
             \* block rolls back and the outer catch counts the batch again
             THEN [counted(tx1) EXCEPT !.failed = tx1.failed + Len(batch),
                                       !.errors = Append(tx1.errors, "Batch")]
             ELSE IF tx1.aborted THEN counted(tx1)  \* COMMIT acted as ROLLBACK
             ELSE [counted(tx1) EXCEPT !.db = tx1.db]
             : tx1 \in {callback} })

batchSize(p) == IF p = "xenova" THEN XenovaBatchSize ELSE OpenAIBatchSize

\* What one iteration of the chunk loop did, from the state before (acc) and
\* after (a) it: the size of the batch, the fault met, whether the
\* transaction was rolled back, and the growth of the store and the counters
ChunkEntry(acc, a, batch, fault) ==
    [size |-> Len(batch), fault |-> fault, rolledBack |-> a.rolledBack,
     stored |-> Len(a.db.documents) - Len(acc.db.documents),
     imported |-> a.imported - acc.imported,
     failed |-> a.failed - acc.failed]

\* the same loop leaving at the first chunk whose transaction was rolled back
RECURSIVE ChunkLoop_stop_on_failure(_, _, _, _, _)
ChunkLoop_stop_on_failure(p, acc, docs, i, faults) ==
    IF i >= Len(docs) \/ acc.rolledBack THEN acc
    ELSE LET batch == SubSeq(docs, i + 1, Min(i + batchSize(p), Len(docs)))
             k == (i \div batchSize(p)) + 1
         IN  Once({ ChunkLoop_stop_on_failure(p,
                        [a EXCEPT !.log = Append(acc.log,
                                                 ChunkEntry(acc, a, batch,
                                                            faults[k]))],
                        docs, i + batchSize(p), faults) :
                      a \in {ProcessChunk(p, acc, batch, faults[k])} })

\* for (let i = 0; i < documents.length; i += batchSize); i is 0-based,
\* faults[k] is the fault injected into chunk k
RECURSIVE ChunkLoop(_, _, _, _, _)
ChunkLoop(p, acc, docs, i, faults) ==
    IF i >= Len(docs) THEN acc
    ELSE LET batch == SubSeq(docs, i + 1, Min(i + batchSize(p), Len(docs)))
             k == (i \div batchSize(p)) + 1
         IN  Once({ ChunkLoop(p, [a EXCEPT !.log = Append(acc.log,
                                                   ChunkEntry(acc, a, batch,
                                                              faults[k]))],
                              docs, i + batchSize(p), faults) :
                      a \in {ProcessChunk(p, acc, batch, faults[k])} })

\* addDocuments(documents): the ImportResult and the database afterwards
addDocuments(p, db, docs, faults) ==
    IF docs = <<>>
    THEN [db |-> db, success |-> TRUE, imported |-> 0, failed |-> 0,
          errors |-> <<>>, chunks |-> <<>>]
    ELSE Once({ [db |-> acc.db, success |-> acc.failed = 0,
                 imported |-> acc.imported, failed |-> acc.failed,
                 errors |-> acc.errors, chunks |-> acc.log] :
                acc \in {ChunkLoop(p, [db |-> db, imported |-> 0, failed |-> 0,
                                       errors |-> <<>>, rolledBack |-> FALSE,
                                       log |-> <<>>], docs, 0, faults)} })

----------------------------------------------------------------------------
(* importFromCSV and transformCSVRow *)

\* A parsed file (csv-parse with columns: true): the header line and the value
\* tuples of the rows; row.key is the value under header key, undefined
\* (modelled as the empty text, equally falsy) when there is no such column.
Field(headers, values, key) ==
    IF \E i \in 1..Len(headers) : headers[i] = key
    THEN values[CHOOSE i \in 1..Len(headers) : headers[i] = key]
    ELSE <<>>

\* a || b || c || d on strings: the first non-empty one
FirstTruthy(vals) ==
    IF \E i \in 1..Len(vals) : vals[i] # <<>>
    THEN vals[CHOOSE i \in 1..Len(vals) :
                 vals[i] # <<>> /\ \A j \in 1..(i - 1) : vals[j] = <<>>]
    ELSE <<>>

\* key.toLowerCase().includes(needle), tabulated for the header names of the model
LowerIncludes(key, needle) ==
    <<key, needle>> \in { <<"content", "content">>, <<"text", "text">>,
                          <<"Kontext", "text">>,
                          <<"Beschreibung", "beschreibung">>,
                          <<"Inhalt", "inhalt">>,
                          <<"title", "title">>, <<"name", "name">>,
                          <<"Titel", "titel">>, <<"Bezeichnung", "bezeichnung">> }

LooksLikeContent(key) ==
    \/ LowerIncludes(key, "content") \/ LowerIncludes(key, "text")
    \/ LowerIncludes(key, "beschreibung") \/ LowerIncludes(key, "inhalt")

LooksLikeTitle(key) ==
    \/ LowerIncludes(key, "title") \/ LowerIncludes(key, "name")
    \/ LowerIncludes(key, "titel") \/ LowerIncludes(key, "bezeichnung")

\* Object.keys(row).find(pred): the value under the first matching header
FindField(headers, values, looksLike) ==
    LET Pred(key) == IF looksLike = "content" THEN LooksLikeContent(key)
                     ELSE LooksLikeTitle(key)
    IN
    IF \E i \in 1..Len(headers) : Pred(headers[i])
    THEN values[CHOOSE i \in 1..Len(headers) :
                   Pred(headers[i]) /\ \A j \in 1..(i - 1) : ~Pred(headers[j])]
    ELSE <<>>

\* the same mapping with the header scan consulted before the aliases
transformCSVRow_scan_first(headers, values, validateText) ==
    LET direct == FirstTruthy(<< Field(headers, values, "content"),
                                 Field(headers, values, "text"),
                                 Field(headers, values, "description"),
                                 Field(headers, values, "body") >>)
        scanned == FindField(headers, values, "content")
        content == IF scanned # <<>> THEN scanned ELSE direct
        directTitle == FirstTruthy(<< Field(headers, values, "title"),
                                      Field(headers, values, "name"),
                                      Field(headers, values, "subject") >>)
        title == IF directTitle # <<>> THEN directTitle
                 ELSE FindField(headers, values, "title")
    IN  IF content = <<>>
        THEN [kind |-> IF validateText THEN "throw" ELSE "null",
              doc |-> Doc(<<>>, NoTitle, NoEmbedding)]
        ELSE IF validateText /\ trim(content) = <<>>
        THEN [kind |-> "throw", doc |-> Doc(<<>>, NoTitle, NoEmbedding)]
        ELSE [kind |-> "doc",
              doc |-> Doc(trim(content), trim(title), NoEmbedding)]

\* transformCSVRow(row, validateText): kind "doc" (a Document), "null"
\* (row skipped) or "throw"
transformCSVRow(headers, values, validateText) ==
    LET direct == FirstTruthy(<< Field(headers, values, "content"),
                                 Field(headers, values, "text"),
                                 Field(headers, values, "description"),
                                 Field(headers, values, "body") >>)
        content == IF direct # <<>> THEN direct
                   ELSE FindField(headers, values, "content")
        directTitle == FirstTruthy(<< Field(headers, values, "title"),
                                      Field(headers, values, "name"),
                                      Field(headers, values, "subject") >>)
        title == IF directTitle # <<>> THEN directTitle
                 ELSE FindField(headers, values, "title")
    IN  IF content = <<>>
        THEN [kind |-> IF validateText THEN "throw" ELSE "null",
              doc |-> Doc(<<>>, NoTitle, NoEmbedding)]
        ELSE IF validateText /\ trim(content) = <<>>
        THEN [kind |-> "throw", doc |-> Doc(<<>>, NoTitle, NoEmbedding)]
        ELSE [kind |-> "doc",
              doc |-> Doc(trim(content), trim(title), NoEmbedding)]

\* the 'data' handler, applied to every row in file order: the documents
\* pushed and the "Line n" errors recorded
RECURSIVE ParseRows(_, _, _, _)
ParseRows(headers, rows, validateText, acc) ==
    IF rows = <<>> THEN acc
    ELSE LET t == transformCSVRow(headers, Head(rows), validateText)
             acc1 == IF t.kind = "doc"
                     THEN [acc EXCEPT !.documents = Append(acc.documents, t.doc)]
                     ELSE IF t.kind = "throw"
                     THEN [acc EXCEPT !.errors = Append(acc.errors, "Line")]
                     ELSE acc
         IN  Once({ ParseRows(headers, Tail(rows), validateText, a) :
                      a \in {acc1} })

\* importFromCSV(filePath, {validateText}): the 'end' handler resolves with
\* the combined result
importFromCSV(p, db, file, validateText, faults) ==
    Once({ Once({ [db |-> result.db,
                   success |-> result.success /\ Len(parsed.errors) = 0,
                   imported |-> result.imported,
                   failed |-> result.failed + Len(parsed.errors),
                   errors |-> parsed.errors \o result.errors] :
                  result \in {addDocuments(p, db, parsed.documents, faults)} }) :
           parsed \in {ParseRows(file.headers, file.rows, validateText,
                                 [documents |-> <<>>, errors |-> <<>>])} })

\* errors.slice(0, n)
Slice(errors, n) == SubSeq(errors, 1, Min(n, Len(errors)))

\* The import_from_csv tool, given the ImportResult of connector.importFromCSV:
\* RAGTools.createImportFromCSVTool ("rag-tools") answers with the first five
\* errors, handleImportFromCSV of mcp/server.ts ("server") returns the result
ImportFromCSVToolResponse(via, result) ==
    [success |-> result.success, imported |-> result.imported,
     failed |-> result.failed,
     errors |-> IF via = "rag-tools" THEN Slice(result.errors, ErrorsShown)
                ELSE result.errors]

----------------------------------------------------------------------------
(* Single-document operations of the connectors *)

\* addDocument(document): validate, embed if the caller supplied no
\* embedding, INSERT ... RETURNING id (one autocommitted statement).
\* connUp = FALSE: postgresConnection.query rejects.
\* embedCalled: this.generateEmbedding was called; backendCalled: that call
\* reached the backend; storeCalled: postgresConnection.query was called.
addDocument(p, db, document, backendUp, backendLen, connUp) ==
    LET e == generateEmbedding(p, document.content, backendUp, backendLen)
        embedCalled == ~document.embedding.present
        embedding == IF document.embedding.present THEN document.embedding
                     ELSE e.vector
        r == InsertDocument(db, document.title, document.content, embedding)
    IN  IF validateDocument(document) # "ok"
        THEN [ok |-> FALSE, error |-> "validation", id |-> 0, db |-> db,
              embedCalled |-> FALSE, backendCalled |-> FALSE,
              storeCalled |-> FALSE]
        ELSE IF embedCalled /\ ~e.ok
        THEN [ok |-> FALSE, error |-> "embedding", id |-> 0, db |-> db,
              embedCalled |-> TRUE, backendCalled |-> e.backendCalled,
              storeCalled |-> FALSE]
        ELSE IF ~connUp \/ ~r.ok
        THEN [ok |-> FALSE, error |-> "database", id |-> 0, db |-> db,
              embedCalled |-> embedCalled,
              backendCalled |-> embedCalled /\ e.backendCalled,
              storeCalled |-> TRUE]
        ELSE [ok |-> TRUE, error |-> "", id |-> r.id, db |-> r.db,
              embedCalled |-> embedCalled,
              backendCalled |-> embedCalled /\ e.backendCalled,
              storeCalled |-> TRUE]

\* A partial document of updateDocument: hasTitle / hasContent / hasMetadata
\* say whether the field is !== undefined
Patch(hasTitle, title, hasContent, content, embedding, hasMetadata) ==
    [hasTitle |-> hasTitle, title |-> title, hasContent |-> hasContent,
     content |-> content, embedding |-> embedding, hasMetadata |-> hasMetadata]

\* UPDATE documents SET ... WHERE id = $n ; the trigger fires when content is
\* in the SET list.  Result [ok, db].
UpdateRow(db, id, setTitle, title, setContent, content, setEmbedding, embedding) ==
    LET hit == HasDocument(db.documents, id)
        old == getDocument(db.documents, id)
        new == [old EXCEPT !.title = IF setTitle THEN title ELSE old.title,
                           !.content = IF setContent THEN content ELSE old.content,
                           !.embedding = IF setEmbedding THEN embedding
                                         ELSE old.embedding]
        docs == [i \in 1..Len(db.documents) |->
                    IF db.documents[i].id = id THEN new ELSE db.documents[i]]
        db1 == [db EXCEPT !.documents = docs]
    IN  IF ~hit THEN [ok |-> TRUE, db |-> db]
        ELSE IF ~RowAccepted(new.title, new.embedding) THEN [ok |-> FALSE, db |-> db]
        ELSE [ok |-> TRUE,
              db |-> IF setContent THEN trigger_update_bm25(db1, id) ELSE db1]

\* updateDocument with the embedding of the caller preferred to the one
\* generated from the new content
updateDocument_supplied_embedding_first(p, db, id, patch, backendUp, backendLen, connUp) ==
    LET e == generateEmbedding(p, patch.content, backendUp, backendLen)
        setEmbedding == patch.hasContent \/ patch.embedding.present
        embedding == IF patch.embedding.present THEN patch.embedding ELSE e.vector
        r == UpdateRow(db, id, patch.hasTitle, patch.title,
                       patch.hasContent, patch.content, setEmbedding, embedding)
    IN  IF patch.hasContent /\ (patch.content = <<>> \/ trim(patch.content) = <<>>)
        THEN [ok |-> FALSE, error |-> "validation", wrote |-> FALSE, db |-> db]
        ELSE IF patch.hasContent /\ ~e.ok
        THEN [ok |-> FALSE, error |-> "embedding", wrote |-> FALSE, db |-> db]
        ELSE IF ~patch.hasTitle /\ ~setEmbedding /\ ~patch.hasMetadata
        THEN [ok |-> TRUE, error |-> "", wrote |-> FALSE, db |-> db]
        ELSE IF ~connUp \/ ~r.ok
        THEN [ok |-> FALSE, error |-> "database", wrote |-> TRUE, db |-> db]
        ELSE [ok |-> TRUE, error |-> "", wrote |-> TRUE, db |-> r.db]

\* updateDocument(id, document); wrote says whether a statement was sent
updateDocument(p, db, id, patch, backendUp, backendLen, connUp) ==
    LET e == generateEmbedding(p, patch.content, backendUp, backendLen)
        setEmbedding == patch.hasContent \/ patch.embedding.present
        embedding == IF patch.hasContent THEN e.vector ELSE patch.embedding
        r == UpdateRow(db, id, patch.hasTitle, patch.title,
                       patch.hasContent, patch.content, setEmbedding, embedding)
    IN  IF patch.hasContent /\ (patch.content = <<>> \/ trim(patch.content) = <<>>)
        THEN [ok |-> FALSE, error |-> "validation", wrote |-> FALSE, db |-> db]
        ELSE IF patch.hasContent /\ ~e.ok
        THEN [ok |-> FALSE, error |-> "embedding", wrote |-> FALSE, db |-> db]
        ELSE IF ~patch.hasTitle /\ ~setEmbedding /\ ~patch.hasMetadata
        THEN [ok |-> TRUE, error |-> "", wrote |-> FALSE, db |-> db]
        ELSE IF ~connUp \/ ~r.ok
        THEN [ok |-> FALSE, error |-> "database", wrote |-> TRUE, db |-> db]
        ELSE [ok |-> TRUE, error |-> "", wrote |-> TRUE, db |-> r.db]

\* deleteDocument(id): DELETE ... WHERE id = $1, resolves with no value
deleteDocument(db, id) == [db EXCEPT !.documents = DeleteRows(db.documents, id)]

\* clearAllDocuments(): DELETE FROM documents
clearAllDocuments(db) == [db EXCEPT !.documents = <<>>]

\* resetDatabase(): await this.clearAllDocuments()
resetDatabase(db) == clearAllDocuments(db)

\* PostgreSQLRetriever.removeDocument(id): result.rowCount > 0, false when
\* the statement throws
removeDocument(db, id, connUp) ==
    IF ~connUp THEN [removed |-> FALSE, db |-> db]
    ELSE [removed |-> RowCount(db.documents, id) > 0,
          db |-> [db EXCEPT !.documents = DeleteRows(db.documents, id)]]

\* RAGTools.createRemoveDocumentTool handler: await deleteDocument(args.id),
\* then return {success: true, ...}
RemoveDocumentToolHandler(db, id) ==
    [success |-> TRUE, id |-> id, db |-> deleteDocument(db, id)]

----------------------------------------------------------------------------
(* Lexical scoring: bm25_score of db-init/init.sql *)

\* ts_rank_cd(doc_tsvector, plainto_tsquery(query)) in thousandths.  Cover
\* density with the default weight 0.1: a one-term query has one cover per
\* occurrence; a query of several terms needs all of them in the document,
\* and the texts of the model then hold exactly one cover without noise words.
ts_rank_cd(tokens, terms) ==
    IF terms = <<>> THEN 0
    ELSE IF Len(terms) = 1 THEN 100 * CountSeq(tokens, terms[1])
    ELSE IF \A i \in 1..Len(terms) : CountSeq(tokens, terms[i]) > 0 THEN 100
    ELSE 0

\* tsvector_content @@ plainto_tsquery(query): every term occurs
Matches(tokens, terms) ==
    \A i \in 1..Len(terms) : CountSeq(tokens, terms[i]) > 0

\* df: SELECT COUNT(*) FROM documents WHERE tsvector_content @@ plainto_tsquery(term)
DocumentFrequency(docs, term) ==
    Cardinality({ i \in 1..Len(docs) :
                    CountSeq(to_tsvector(docs[i].content), term) > 0 })

\* 1000 * ln((N - df + 0.5) / (df + 0.5)), rounded, for 1 <= df <= N <= 6
LnTable ==
    << <<-1099>>,
       <<0, -1609>>,
       <<511, -511, -1946>>,
       <<847, 0, -847, -2197>>,
       <<1099, 336, -336, -1099, -2398>>,
       <<1299, 588, 0, -588, -1299, -2565>> >>

Idf(total_docs, df) == LnTable[total_docs][df]

\* one iteration of the FOREACH loop: idf * normalized_tf in thousandths,
\* k1 = 1.2, b = 0.75; avg_doc_length is the fraction avg_num / avg_den
TermScore(docs, term, tokens, doc_length, stats) ==
    LET tf == ts_rank_cd(tokens, <<term>>)
        df == DocumentFrequency(docs, term)
        normalized_tf ==
            (22 * tf * stats.avg_num * 1000) \div
            (10 * tf * stats.avg_num + 3 * stats.avg_num
               + 9 * doc_length * stats.avg_den)
    IN  IF df = 0 THEN 0
        ELSE (Idf(stats.total_documents, df) * normalized_tf) \div 1000

RECURSIVE SumTerms(_, _, _, _, _)
SumTerms(docs, terms, tokens, doc_length, stats) ==
    IF terms = <<>> THEN 0
    ELSE TermScore(docs, Head(terms), tokens, doc_length, stats)
         + SumTerms(docs, Tail(terms), tokens, doc_length, stats)

\* bm25_score(query_terms, doc_tsvector, doc_length, avg_doc_length, total_docs)
\* in thousandths: RETURN GREATEST(score, 0)
bm25_score(docs, query_terms, doc, stats) ==
    Max(SumTerms(docs, query_terms, to_tsvector(doc.content), doc.word_count,
                 stats), 0)

\* query_terms of hybrid_search_documents: lower, split on blanks, drop ''
QueryTerms(query_text) == array_remove(string_to_array(lower(query_text)))

----------------------------------------------------------------------------
(* Result lists *)

\* ORDER BY key DESC, rows of equal key in table order
RECURSIVE InsertDesc(_, _)
InsertDesc(sorted, row) ==
    IF sorted = <<>> THEN <<row>>
    ELSE IF Head(sorted).key >= row.key
    THEN <<Head(sorted)>> \o InsertDesc(Tail(sorted), row)
    ELSE <<row>> \o sorted

RECURSIVE OrderByDesc(_)
OrderByDesc(rows) ==
    IF rows = <<>> THEN <<>>
    ELSE InsertDesc(OrderByDesc(SubSeq(rows, 1, Len(rows) - 1)), rows[Len(rows)])

\* LIMIT n
Limit(rows, n) == SubSeq(rows, 1, Min(n, Len(rows)))

\* the same map with rank: index
Ranked_from_zero(rows) == [i \in 1..Len(rows) |-> [rows[i] EXCEPT !.rank = i - 1]]

\* rows.map((row, index) => ({..., rank: index + 1}))
Ranked(rows) == [i \in 1..Len(rows) |-> [rows[i] EXCEPT !.rank = i]]

Row(id, score, vector_score, bm25) ==
    [id |-> id, score |-> score, vector_score |-> vector_score,
     bm25_score |-> bm25, rank |-> 0, key |-> score]

Found(mode, rows) == [ok |-> TRUE, scoredBy |-> mode, rows |-> Ranked(rows)]
Failed == [ok |-> FALSE, scoredBy |-> "none", rows |-> <<>>]

\* an optional numeric argument that the caller left out
Undefined == -1
OrDefault(x, d) == IF x = Undefined \/ x = 0 THEN d ELSE x   \* x || d
Default(x, d) == IF x = Undefined THEN d ELSE x              \* x = d in a pattern

----------------------------------------------------------------------------
(* PostgreSQLSearchService and the SQL search functions *)

HasEmbedding(r) == r.embedding.present

\* vectorSearch(embedding, limit = 5, threshold = 0.05):
\* WHERE 1 - (embedding <=> $1) > $2 ORDER BY embedding <=> $1 LIMIT $3
vectorSearch(docs, embedding, limit, threshold) ==
    LET thr == Default(threshold, 5)
        lim == Default(limit, 5)
        cand == SelectSeq(docs, HasEmbedding)
        scored == [i \in 1..Len(cand) |->
                     Row(cand[i].id, CosineSimilarity(cand[i].embedding, embedding),
                         CosineSimilarity(cand[i].embedding, embedding), 0)]
        Kept(r) == r.score > thr
    IN  IF embedding.len # ColumnDimensions THEN Failed
        ELSE Found("vector", Limit(OrderByDesc(SelectSeq(scored, Kept)), lim))

\* A variant that fuses first and applies the threshold to the fused score
hybrid_search_fuse_then_filter(docs, stats, query_text, query_embedding, similarity_threshold, bm25_weight, vector_weight, result_limit) ==
    LET query_terms == QueryTerms(query_text)
        cand == SelectSeq(docs, HasEmbedding)
        scored == [i \in 1..Len(cand) |->
            LET sim == CosineSimilarity(cand[i].embedding, query_embedding)
                bm == bm25_score(docs, query_terms, cand[i], stats)
            IN  Row(cand[i].id,
                    vector_weight * sim * 100 + bm25_weight * Min(bm, 10000),
                    sim, bm)]
        Kept(r) == r.score > similarity_threshold * 1000
    IN  Limit(OrderByDesc(SelectSeq(scored, Kept)), result_limit)

\* hybrid_search_documents(query_text, query_embedding, similarity_threshold,
\* bm25_weight, vector_weight, result_limit); scores in units of 10^-5
hybrid_search_documents(docs, stats, query_text, query_embedding, similarity_threshold, bm25_weight, vector_weight, result_limit) ==
    LET query_terms == QueryTerms(query_text)
        cand == SelectSeq(docs, HasEmbedding)
        scored == [i \in 1..Len(cand) |->
            LET sim == CosineSimilarity(cand[i].embedding, query_embedding)
                bm == bm25_score(docs, query_terms, cand[i], stats)
            IN  Row(cand[i].id,
                    vector_weight * sim * 100 + bm25_weight * Min(bm, 10000),
                    sim, bm)]
        \* WHERE d.embedding <=> query_embedding < (1 - similarity_threshold)
        Kept(r) == (100 - r.vector_score) < (100 - similarity_threshold)
    IN  Limit(OrderByDesc(SelectSeq(scored, Kept)), result_limit)

\* search_documents_by_similarity(query_embedding, similarity_threshold,
\* result_limit): the same strict comparison as vectorSearch
search_documents_by_similarity(docs, query_embedding, similarity_threshold, result_limit) ==
    vectorSearch(docs, query_embedding, result_limit, similarity_threshold).rows

\* bm25_score(content, query) as bm25Search calls it: per term the number of
\* occurrences, saturated with k1 = 1.2, b = 0.75 against the stored average
\* length, times the idf floored at zero; in thousandths
RECURSIVE LexicalScore(_, _, _, _)
LexicalScore(docs, terms, doc, stats) ==
    IF terms = <<>> THEN 0
    ELSE LET term == Head(terms)
             tf == CountSeq(to_tsvector(doc.content), term)
             df == DocumentFrequency(docs, term)
             saturated ==
                 (22 * tf * stats.avg_num * 1000) \div
                 (10 * tf * stats.avg_num + 3 * stats.avg_num
                    + 9 * doc.word_count * stats.avg_den)
             here == IF df = 0 \/ tf = 0 THEN 0
                     ELSE (Max(Idf(stats.total_documents, df), 0) * saturated)
                          \div 1000
         IN  here + LexicalScore(docs, Tail(terms), doc, stats)

\* bm25Search(query, limit = 5): rows matching the query, best score first;
\* the query fails in a database without bm25_score(text, text)
bm25Search(docs, stats, query, limit, installed) ==
    LET terms == QueryTerms(query)
        Hit(r) == terms # <<>> /\ Matches(to_tsvector(r.content), terms)
        cand == SelectSeq(docs, Hit)
        scored == [i \in 1..Len(cand) |->
                     LET s == LexicalScore(docs, terms, cand[i], stats)
                     IN  Row(cand[i].id, s, Undefined, s)]
    IN  IF ~installed THEN Failed
        ELSE Found("bm25", Limit(OrderByDesc(scored), Default(limit, 5)))

\* the options object of a search call; a number left out is Undefined, an
\* embedding left out is NoEmbedding, useHybrid is "true", "false" or "unset"
SearchOptions(query, queryEmbedding, limit, threshold, useHybrid, bm25Weight, vectorWeight) ==
    [query |-> query, queryEmbedding |-> queryEmbedding, limit |-> limit,
     threshold |-> threshold, useHybrid |-> useHybrid,
     bm25Weight |-> bm25Weight, vectorWeight |-> vectorWeight]

\* PostgreSQLSearchService.hybridSearch(query, options): without a query
\* embedding it warns on the console and answers with bm25Search
hybridSearch(docs, stats, query, options, installed) ==
    LET limit == Default(options.limit, 5)
        threshold == Default(options.threshold, 5)
        bm25Weight == Default(options.bm25Weight, 3)
        vectorWeight == Default(options.vectorWeight, 7)
    IN  IF ~options.queryEmbedding.present \/ options.queryEmbedding.len = 0
        THEN bm25Search(docs, stats, query, limit, installed)
        ELSE IF options.queryEmbedding.len # ColumnDimensions THEN Failed
        ELSE Found("hybrid",
                   hybrid_search_documents(docs, stats, query,
                       options.queryEmbedding, threshold, bm25Weight,
                       vectorWeight, limit))

\* DatabaseConnector.search(options)
search(p, docs, stats, options, installed) ==
    IF options.useHybrid # "false"
    THEN hybridSearch(docs, stats, options.query, options, installed)
    ELSE LET e == generateEmbedding(p, options.query, TRUE, getDimensions(p))
         IN  IF ~e.ok THEN Failed
             ELSE vectorSearch(docs, e.vector, options.limit, options.threshold)

\* The calls DatabaseConnector.search(options) makes: whether it calls
\* embeddingService.generateEmbedding, which method of the search service it
\* reaches and the query embedding it hands over (options.queryEmbedding on
\* the hybrid path, the generated vector on the vector path)
searchCalls(p, options) ==
    IF options.useHybrid # "false"
    THEN [embedCalled |-> FALSE, service |-> "hybridSearch",
          embedding |-> options.queryEmbedding,
          limit |-> options.limit, threshold |-> options.threshold]
    ELSE LET e == generateEmbedding(p, options.query, TRUE, getDimensions(p))
         IN  [embedCalled |-> TRUE,
              service |-> IF e.ok THEN "vectorSearch" ELSE "none",
              embedding |-> e.vector,
              limit |-> options.limit, threshold |-> options.threshold]

\* handleQueryDocuments(args) of the MCP server
handleQueryDocuments(p, docs, stats, args, installed) ==
    LET results ==
            search(p, docs, stats,
                   SearchOptions(args.query, NoEmbedding,
                                 OrDefault(args.limit, 5),
                                 OrDefault(args.threshold, 5),
                                 IF args.useHybrid # "false" THEN "true"
                                                             ELSE "false",
                                 OrDefault(args.bm25Weight, 3),
                                 OrDefault(args.vectorWeight, 7)),
                   installed)
    IN  [success |-> results.ok, results |-> results,
         searchType |-> IF args.useHybrid # "false" THEN "hybrid" ELSE "vector"]

----------------------------------------------------------------------------
(* The JavaScript retrievers and the query_documents tool built on them *)

\* search_documents(query_embedding, similarity_threshold, result_limit) of
\* db-init/01-init.sql: embedding IS NOT NULL AND similarity >= threshold
search_documents(docs, query_embedding, similarity_threshold, result_limit) ==
    LET cand == SelectSeq(docs, HasEmbedding)
        scored == [i \in 1..Len(cand) |->
                     Row(cand[i].id,
                         CosineSimilarity(cand[i].embedding, query_embedding),
                         CosineSimilarity(cand[i].embedding, query_embedding), 0)]
        Kept(r) == r.score >= similarity_threshold
    IN  Limit(OrderByDesc(SelectSeq(scored, Kept)), result_limit)

\* PostgreSQLRetriever.generateEmbedding(text): the embedder's output as is
RetrieverEmbedding(text) == Embedding(XenovaDimensions, ModelOutput(text))

\* PostgreSQLRetriever.search(query, limit = 5, threshold = 0.3)
RetrieverSearch(docs, query, limit, threshold) ==
    Found("vector",
          search_documents(docs, RetrieverEmbedding(query),
                           Default(threshold, 30), Default(limit, 5)))

\* PostgreSQLRetriever.hybridSearch(query, limit = 5, threshold = 0.05,
\* bm25Weight = 0.3, vectorWeight = 0.7): the lexical score is
\* ts_rank_cd * 5.0 and it is divided by 5.0 again before the clamp
RetrieverHybridSearch(docs, query, limit, threshold, bm25Weight, vectorWeight) ==
    LET q == RetrieverEmbedding(query)
        terms == QueryTerms(query)
        thr == Default(threshold, 5)
        bw == Default(bm25Weight, 3)
        vw == Default(vectorWeight, 7)
        cand == SelectSeq(docs, HasEmbedding)
        scored == [i \in 1..Len(cand) |->
            LET sim == CosineSimilarity(cand[i].embedding, q)
                bm == ts_rank_cd(to_tsvector(cand[i].content), terms) * 5
            IN  Row(cand[i].id,
                    vw * sim * 100 + bw * Min((bm * 10) \div 5, 10000),
                    sim, bm)]
        Kept(r) == (100 - r.vector_score) < (100 - thr)
    IN  Found("hybrid",
              Limit(OrderByDesc(SelectSeq(scored, Kept)), Default(limit, 5)))

\* RAGService.queryDocuments(query, options) of mcp-server-factory.js
queryDocuments(docs, query, options) ==
    IF options.useHybrid # "false"       \* useHybrid = true when left out
    THEN RetrieverHybridSearch(docs, query, options.limit, options.threshold,
                               options.bm25Weight, options.vectorWeight)
    ELSE RetrieverSearch(docs, query, options.limit, options.threshold)

\* execute(params) of the query_documents tool (registerQueryDocumentsTool)
registerQueryDocumentsTool(docs, params) ==
    queryDocuments(docs, params.query,
        SearchOptions(params.query, NoEmbedding,
                      OrDefault(params.limit, 5),
                      OrDefault(params.threshold, 5),
                      IF params.useHybrid # "false" THEN "true" ELSE "false",
                      OrDefault(params.bm25Weight, 3),
                      OrDefault(params.vectorWeight, 7)))

\* SimplePersistentRetriever.search(query, limit = 5, threshold = 0.3) over
\* its in-memory maps: similarity >= threshold, sort descending, slice
SimpleSearch(docs, query, limit, threshold) ==
    LET q == RetrieverEmbedding(query)
        cand == SelectSeq(docs, HasEmbedding)
        scored == [i \in 1..Len(cand) |->
                     Row(cand[i].id, CosineSimilarity(cand[i].embedding, q),
                         CosineSimilarity(cand[i].embedding, q), 0)]
        Kept(r) == r.score >= Default(threshold, 30)
    IN  IF docs = <<>> THEN Found("vector", <<>>)
        ELSE Found("vector",
                   Limit(OrderByDesc(SelectSeq(scored, Kept)), Default(limit, 5)))

----------------------------------------------------------------------------
(* MCPServer: the tool registry and callTool *)

\* The arguments object of a tool call: given is the set of keys present,
\* limit is Undefined when left out
ToolArgs(given, query, limit, id) ==
    [given |-> given, query |-> query, limit |-> limit, id |-> id]

\* tool.inputSchema.parse(args): CommonSchemas.querySchema (query required,
\* limit min 1 max 100 default 10, threshold default 0.7, useHybrid default
\* true, weights default 0.3 / 0.7), documentIdSchema (id required),
\* urlImportSchema (url required).  Result [ok, error, args]; args carries
\* the defaults.
inputSchemaParse(name, args) ==
    LET bad(msg) == [ok |-> FALSE, error |-> msg, args |-> args]
    IN  IF name = "query_documents"
        THEN IF "query" \notin args.given THEN bad("Required")
             ELSE IF args.limit # Undefined /\ args.limit < 1
             THEN bad("must be greater than or equal to 1")
             ELSE IF args.limit # Undefined /\ args.limit > 100
             THEN bad("must be less than or equal to 100")
             ELSE [ok |-> TRUE, error |-> "",
                   args |-> [args EXCEPT !.limit = Default(args.limit, 10)]]
        ELSE IF name = "remove_document"
        THEN IF "id" \notin args.given THEN bad("Required")
             ELSE [ok |-> TRUE, error |-> "", args |-> args]
        ELSE IF "url" \notin args.given THEN bad("Required")
             ELSE [ok |-> TRUE, error |-> "", args |-> args]

\* tool.handler(validatedArgs) of the RAGTools tools: [threw, db]
ToolHandler(name, args, p, db, installed, connUp) ==
    IF name = "query_documents"
    THEN LET results ==
                 search(p, db.documents, db.bm25_stats,
                        SearchOptions(args.query, NoEmbedding, args.limit, 70,
                                      "true", 3, 7), installed)
         IN  [threw |-> ~connUp \/ ~results.ok, db |-> db]
    ELSE IF name = "remove_document"
    THEN IF ~connUp THEN [threw |-> TRUE, db |-> db]
         ELSE [threw |-> FALSE, db |-> RemoveDocumentToolHandler(db, args.id).db]
    ELSE [threw |-> TRUE, db |-> db]   \* add_document_from_url: not implemented

ToolOutcome(rejected, success, error, handlerCalled, handlerArgs, db) ==
    [rejected |-> rejected, success |-> success, error |-> error,
     handlerCalled |-> handlerCalled, handlerArgs |-> handlerArgs, db |-> db]

\* callTool with the handler called on the caller's arguments as they came
callTool_handler_unvalidated(registered, name, args, p, db, installed, connUp) ==
    IF name \notin registered
    THEN ToolOutcome(TRUE, FALSE, "not found", FALSE, args, db)
    ELSE LET h == ToolHandler(name, args, p, db, installed, connUp)
         IN  IF h.threw
             THEN ToolOutcome(FALSE, FALSE, "handler", TRUE, args, h.db)
             ELSE ToolOutcome(FALSE, TRUE, "", TRUE, args, h.db)

\* MCPServer.callTool(name, args)
callTool(registered, name, args, p, db, installed, connUp) ==
    IF name \notin registered
    THEN ToolOutcome(TRUE, FALSE, "not found", FALSE, args, db)
    ELSE LET v == inputSchemaParse(name, args)
             h == ToolHandler(name, v.args, p, db, installed, connUp)
         IN  IF ~v.ok
             THEN ToolOutcome(FALSE, FALSE, v.error, FALSE, args, db)
             ELSE IF h.threw
             THEN ToolOutcome(FALSE, FALSE, "handler", TRUE, v.args, h.db)
             ELSE ToolOutcome(FALSE, TRUE, "", TRUE, v.args, h.db)

----------------------------------------------------------------------------
(* Inputs of the model *)

TA == <<"a">>
TB == <<"b">>
TAB == <<"a", SP, "b">>
TPadB == <<SP, "b">>
TBlank == <<SP>>
TEmpty == <<>>
TTitle == <<"t">>
TLong == <<"L">>

\* texts handed to generateEmbedding
SampleTexts == {TA, TPadB, TBlank, TEmpty}

\* lengths of the vector an embedding backend may return
BackendLens == {XenovaDimensions, OpenAIDimensions}

SampleDocuments ==
    { Doc(TA, NoTitle, NoEmbedding),
      Doc(TAB, TTitle, NoEmbedding),
      Doc(TPadB, NoTitle, Embedding(ColumnDimensions, <<0, 5>>)),
      Doc(TB, NoTitle, Embedding(OpenAIDimensions, <<0, 5>>)),
      Doc(TB, TLong, NoEmbedding),
      Doc(TBlank, NoTitle, NoEmbedding),
      Doc(TA, NotAString, NoEmbedding) }

SamplePatches ==
    { Patch(FALSE, NoTitle, FALSE, TEmpty, NoEmbedding, FALSE),
      Patch(FALSE, NoTitle, FALSE, TEmpty, NoEmbedding, TRUE),
      Patch(TRUE, TTitle, FALSE, TEmpty, NoEmbedding, FALSE),
      Patch(FALSE, NoTitle, TRUE, TAB, Embedding(ColumnDimensions, <<0, 5>>), FALSE),
      Patch(FALSE, NoTitle, TRUE, TA, NoEmbedding, FALSE),
      Patch(FALSE, NoTitle, TRUE, TBlank, NoEmbedding, FALSE),
      Patch(TRUE, TTitle, TRUE, TEmpty, NoEmbedding, TRUE),
      Patch(FALSE, NoTitle, FALSE, TEmpty, Embedding(ColumnDimensions, <<0, 5>>), FALSE),
      Patch(FALSE, NoTitle, FALSE, TEmpty, Embedding(OpenAIDimensions, <<0, 5>>), FALSE) }

SampleHeaders ==
    { <<"title", "content">>, <<"Titel", "Beschreibung">> }

\* value tuples <<title cell, content cell>>
SampleValues ==
    { <<TEmpty, TA>>, <<TTitle, TAB>>, <<TEmpty, TEmpty>>, <<TEmpty, TBlank>>,
      <<TLong, TB>> }

\* rows handed to transformCSVRow on their own: also columns whose order
\* differs from the alias order, German headers, and a padded content cell
CSVHeaders ==
    SampleHeaders \cup { <<"text", "content">>, <<"Kontext", "Inhalt">>,
                         <<"body", "description">>,
                         <<"Bezeichnung", "Beschreibung">> }
CSVValues == SampleValues \cup { <<TEmpty, TPadB>>, <<TB, TEmpty>> }

\* files of n rows that all have a blank content cell
BlankRowFiles ==
    { [headers |-> <<"title", "content">>,
       rows |-> [i \in 1..n |-> <<TEmpty, TBlank>>]] : n \in 1..MaxRows }

SampleFiles ==
    { [headers |-> h, rows |-> r] :
        h \in SampleHeaders, r \in SeqsUpTo(SampleValues, MaxBatch) }

\* no fault, a fault of one kind in one chunk, or a connection that is lost
\* from one chunk on (BEGIN fails in that chunk and in every later one)
MaxChunks == (MaxBatch + 1) \div 2
FaultPlans ==
    { [k \in 1..MaxChunks |-> "none"] } \cup
    { [k \in 1..MaxChunks |-> IF k = c THEN f ELSE "none"] :
        c \in 1..MaxChunks, f \in FaultKinds \ {"none"} } \cup
    { [k \in 1..MaxChunks |-> IF k >= c THEN "begin" ELSE "none"] :
        c \in 1..MaxChunks }

Ids == 1..MaxIds

\* tools of RAGTools.createAllTools, and a name that is never registered
ToolNames == {"query_documents", "remove_document", "add_document_from_url"}
CalledNames == ToolNames \cup {"non_existent_tool"}
SampleToolArgs ==
    { ToolArgs({}, TEmpty, Undefined, 0),
      ToolArgs({"query"}, TA, Undefined, 0),
      ToolArgs({"query"}, TEmpty, 1, 0),
      ToolArgs({"query"}, TA, 0, 0),
      ToolArgs({"query"}, TA, 101, 0),
      ToolArgs({"id"}, TEmpty, Undefined, 1),
      ToolArgs({"url"}, TEmpty, Undefined, 0) }

\* search inputs: similarities and thresholds in hundredths, weights in tenths
Queries == {TA, TB, TAB}
QueryEmbeddings ==
    { NoEmbedding, Embedding(ColumnDimensions, <<5, 0>>),
      Embedding(ColumnDimensions, <<3, 4>>) }
Thresholds == {Undefined, 0, 80}
Limits == {Undefined, 1}
Bm25Weights == {0, 10}
VectorWeights == {0, 7}
HybridFlags == {"unset", "false"}

----------------------------------------------------------------------------
(* XenovaEmbeddingService: the lazily loaded model pipeline *)

MaxCalls == 2      \* calls of one service instance that may be in flight
MaxLoads == 3      \* model loads the model follows before it stops loading

Calls == 1 .. MaxCalls

Methods == {"initializePipeline", "generateEmbedding", "generateEmbeddings",
            "isAvailable"}

\* pipeline = 0 is the null field; a loaded pipeline is numbered by its load
NoCall == [pc |-> "none", method |-> "none", used |-> 0]

XenovaService ==
    [pipeline |-> 0, loads |-> 0, calls |-> [c \in Calls |-> NoCall]]

\* what a method does with the pipeline initializePipeline handed to it:
\* initializePipeline returns it, the generate methods run the model with it,
\* isAvailable goes on to generateEmbedding('test')
afterInitializePipeline(method, pipeline) ==
    CASE method = "initializePipeline" ->
            [pc |-> "returned", method |-> method, used |-> pipeline]
      [] method = "isAvailable" ->
            [pc |-> "test", method |-> method, used |-> 0]
      [] OTHER ->
            [pc |-> "inference", method |-> method, used |-> pipeline]

\* the synchronous head of initializePipeline: a set field is returned, a
\* null field starts a load
initializePipeline(service, method) ==
    IF service.pipeline # 0
    THEN afterInitializePipeline(method, service.pipeline)
    ELSE [pc |-> "loading", method |-> method, used |-> 0]

----------------------------------------------------------------------------
(* The legacy retrievers: PostgreSQLRetriever, SimplePersistentRetriever and
   SimpleRetriever.  Two callers use the retriever at a time; a stored value
   is the caller whose call wrote it, Absent where the key is missing.  For the PostgreSQL retriever the field
   documents holds the columns content and metadata of table documents and
   the field embeddings its column embedding; the two files stay unused.
   File writes are taken to succeed. *)

Writers == {"A", "B"}

Absent == "none"

DocIds == {"doc1", "doc2"}

RetrieverKinds == {"postgresql", "persistent", "simple"}

EmptyMap == [id \in DocIds |-> Absent]

Keys(map) == {id \in DocIds : map[id] # Absent}

Resting == [pc |-> "none", op |-> "none", id |-> "none", snapshot |-> EmptyMap]

InFlight(pc, op, id, snapshot) ==
    [pc |-> pc, op |-> op, id |-> id, snapshot |-> snapshot]

NewRetriever(kind) ==
    [kind |-> kind,
     documents |-> EmptyMap, embeddings |-> EmptyMap,
     documentsFile |-> EmptyMap, embeddingsFile |-> EmptyMap,
     calls |-> [c \in Writers |-> Resting]]

NoRetriever == NewRetriever("none")

\* this.documents.set(id, document); this.embeddings.set(id, embedding), or
\* the one INSERT ... ON CONFLICT (id) DO UPDATE of the PostgreSQL retriever
StoreBoth(r, c, id) ==
    [r EXCEPT !.documents[id] = c, !.embeddings[id] = c]

\* saveToDisk up to its first await: the documents are serialised as they are
\* now and the write of documents.json is under way
saveToDisk(r, c) ==
    [r EXCEPT !.calls[c].pc = "writingDocuments",
              !.calls[c].snapshot = r.documents]

\* a removal that forgets the embedding
DeleteBoth_documents_only(r, id) ==
    [r EXCEPT !.documents[id] = Absent]

\* this.documents.delete(id) && this.embeddings.delete(id)
DeleteBoth(r, id) ==
    [r EXCEPT !.documents[id] = Absent,
              !.embeddings[id] = IF r.documents[id] # Absent THEN Absent ELSE @]

----------------------------------------------------------------------------
(* PostgreSQLConnection: the pool, and one call at a time.  tested says that
   a test query has succeeded on the pool the field holds; log lists what a
   transaction has issued so far; released counts client.release() *)

ConnectionOps == {"connect", "disconnect", "query", "transaction", "getClient"}

CallbackResults == {"r1", "r2"}

NotConnected == "Database not connected"

NoConnectionCall ==
    [op |-> "none", pc |-> "none", log |-> <<>>, released |-> 0,
     value |-> "none", result |-> "none", error |-> "none"]

NewConnection == [pool |-> FALSE, tested |-> FALSE, call |-> NoConnectionCall]

Awaiting(op, pc) == [NoConnectionCall EXCEPT !.op = op, !.pc = pc]

Rejected(op, error) ==
    [NoConnectionCall EXCEPT !.op = op, !.pc = "rejected", !.error = error]

\* connect(): a pool that is set means connected; otherwise the pool is
\* created and the test begins with await this.pool.connect()
connect(conn) ==
    IF conn.pool
    THEN [conn EXCEPT !.call = Awaiting("connect", "resolved")]
    ELSE [conn EXCEPT !.pool = TRUE, !.tested = FALSE,
                      !.call = Awaiting("connect", "acquire")]

\* disconnect(): await this.pool.end() when there is a pool
disconnect(conn) ==
    [conn EXCEPT !.call = Awaiting("disconnect",
                                   IF conn.pool THEN "ending" ELSE "resolved")]

\* query / transaction / getClient up to their first await
whenConnected(conn, op, pc) ==
    [conn EXCEPT !.call = IF conn.pool THEN Awaiting(op, pc)
                          ELSE Rejected(op, NotConnected)]

\* transaction() with client.release() at the end of the try and of the
\* catch block instead of in finally
transactionAwaited_release_without_finally(call, ok, value) ==
    CASE call.pc = "begin" /\ ok ->
            [call EXCEPT !.pc = "callback"]
      [] call.pc = "callback" /\ ok ->
            [call EXCEPT !.pc = "commit", !.value = value,
                         !.log = @ \o <<"callback resolved", "COMMIT">>]
      [] call.pc = "callback" /\ ~ok ->
            [call EXCEPT !.pc = "rollback", !.error = "callback",
                         !.log = @ \o <<"callback rejected", "ROLLBACK">>]
      [] call.pc = "commit" /\ ok ->
            [call EXCEPT !.pc = "resolved", !.result = call.value,
                         !.released = @ + 1]
      [] call.pc \in {"begin", "commit"} /\ ~ok ->
            [call EXCEPT !.pc = "rollback", !.error = "statement",
                         !.log = @ \o <<"ROLLBACK">>]
      [] call.pc = "rollback" /\ ok ->
            [call EXCEPT !.pc = "rejected", !.released = @ + 1]
      [] OTHER ->
            [call EXCEPT !.pc = "rejected", !.error = "rollback"]

\* transaction() after one of its awaits has settled: BEGIN, the callback,
\* COMMIT or ROLLBACK.  The catch block issues ROLLBACK for any error of the
\* try block; finally releases the client when the call leaves
transactionAwaited(call, ok, value) ==
    CASE call.pc = "begin" /\ ok ->
            [call EXCEPT !.pc = "callback"]
      [] call.pc = "callback" /\ ok ->
            [call EXCEPT !.pc = "commit", !.value = value,
                         !.log = @ \o <<"callback resolved", "COMMIT">>]
      [] call.pc = "callback" /\ ~ok ->
            [call EXCEPT !.pc = "rollback", !.error = "callback",
                         !.log = @ \o <<"callback rejected", "ROLLBACK">>]
      [] call.pc = "commit" /\ ok ->
            [call EXCEPT !.pc = "resolved", !.result = call.value,
                         !.released = @ + 1]
      [] call.pc \in {"begin", "commit"} /\ ~ok ->
            [call EXCEPT !.pc = "rollback", !.error = "statement",
                         !.log = @ \o <<"ROLLBACK">>]
      [] call.pc = "rollback" /\ ok ->
            [call EXCEPT !.pc = "rejected", !.released = @ + 1]
      [] OTHER ->
            [call EXCEPT !.pc = "rejected", !.error = "rollback",
                         !.released = @ + 1]

----------------------------------------------------------------------------
(* mcp/server.ts: the module-level connector that initializeConnector hands
   to every tool call.  connected and initialized say that connect() and
   initializeDatabase() of the connector in the variable have succeeded *)

\* the tools of the server: every handler begins with initializeConnector
ServerTools == {"add_document", "query_documents", "add_document_from_url",
                "import_from_csv", "get_rag_status", "list_documents",
                "remove_document"}

NoToolCall == [pc |-> "none", tool |-> "none", ready |-> FALSE]

NewServer ==
    [connector |-> FALSE, connected |-> FALSE, initialized |-> FALSE,
     calls |-> [c \in Calls |-> NoToolCall]]

\* what the caller of initializeConnector holds when it returns: ready says
\* whether connect() and initializeDatabase() had both succeeded by then
Returned(srv, tool) ==
    [pc |-> "returned", tool |-> tool,
     ready |-> srv.connected /\ srv.initialized]

\* initializeConnector up to its first await: a set variable is returned as
\* it is; otherwise the connector is constructed, assigned, and connect()
\* is awaited
initializeConnector(srv, c, tool) ==
    IF srv.connector
    THEN [srv EXCEPT !.calls[c] = Returned(srv, tool)]
    ELSE [srv EXCEPT !.connector = TRUE,
                     !.calls[c] = [pc |-> "connecting", tool |-> tool,
                                   ready |-> FALSE]]

----------------------------------------------------------------------------
(* RAGService of the legacy MCP server factory: lazy initialisation behind
   one promise.  promise is the state of initializationPromise, together
   with how far _doInitialize has come while it is pending; runs counts the
   calls of _doInitialize *)

RAGOperations == {"initialize", "addDocument", "queryDocuments",
                  "generateResponse", "getStats", "getAllDocuments",
                  "getDocument", "removeDocument"}

NoRAGCall == [pc |-> "none", op |-> "none"]

NewRAGService ==
    [promise |-> "none", runs |-> 0, components |-> FALSE,
     calls |-> [c \in Calls |-> NoRAGCall]]

\* initialize() that starts over when the earlier run has failed
initialize_retry_after_failure(svc) ==
    IF svc.promise \in {"none", "rejected"}
    THEN [svc EXCEPT !.promise = "importing", !.runs = @ + 1]
    ELSE svc

\* initialize(): the first call starts _doInitialize and keeps its promise;
\* every call returns that promise
initialize(svc) ==
    IF svc.promise = "none"
    THEN [svc EXCEPT !.promise = "importing", !.runs = @ + 1]
    ELSE svc

----------------------------------------------------------------------------
(* StdioMCPServer: JSON-RPC over stdin and stdout.  A chunk of stdin is a
   sequence of lines, each one message of a client; the client numbers its
   messages and a request carries its number as id.  A response is the id it
   carries (Null for id: null) and its error code, 0 for a result *)

MaxRequests == 3   \* messages a client sends
MaxLines == 2      \* lines that arrive in one chunk of stdin

Null == 0

RPCMethods == {"initialize", "notifications/initialized", "tools/list",
               "tools/call", "resources/list"}

\* what a line holds: a request of one of the methods, or no JSON at all
MessageKinds == RPCMethods \cup {"garbage"}

NewStdioServer ==
    [sent |-> 0, received |-> {}, pending |-> {}, written |-> <<>>]

Response(id, code) == [id |-> id, code |-> code]

\* JSON.parse of the trimmed chunk: one line that holds an object parses to
\* that request; several lines, or a line that is no JSON, throw
JSONparse(lines) ==
    IF Len(lines) = 1 /\ lines[1] # "garbage"
    THEN [ok |-> TRUE, method |-> lines[1]]
    ELSE [ok |-> FALSE, method |-> "none"]

\* the requests of a chunk that are owed a response, by id: the first line
\* of the chunk is message first of the client
Requests(lines, first) ==
    { first + k - 1 : k \in { i \in 1..Len(lines) :
          lines[i] \notin {"garbage", "notifications/initialized"} } }

\* handleMCPMessage(data.trim()) up to its first await
handleMCPMessage(srv, lines, id) ==
    LET request == JSONparse(lines)
    IN  CASE lines = <<>> -> srv
          [] ~request.ok ->
                [srv EXCEPT !.written = Append(@, Response(Null, -32700))]
          [] request.method = "notifications/initialized" -> srv
          [] request.method = "tools/call" ->
                [srv EXCEPT !.pending = @ \cup {id}]
          [] request.method \in {"initialize", "tools/list"} ->
                [srv EXCEPT !.written = Append(@, Response(id, 0))]
          [] OTHER ->
                [srv EXCEPT !.written = Append(@, Response(id, -32601))]

----------------------------------------------------------------------------
(* The state machine *)

CurrentDB == DB(documents, bm25_stats, nextId)

Commit(db) ==
    /\ documents' = db.documents
    /\ bm25_stats' = db.bm25_stats
    /\ nextId' = db.nextId

Init ==
    /\ provider \in {"xenova", "openai"}
    /\ lexicalInstalled \in BOOLEAN
    /\ documents = <<>>
    /\ bm25_stats = [total_documents |-> 0, avg_num |-> 0, avg_den |-> 1]
    /\ nextId = 1
    /\ tools = {}
    /\ last = [op |-> "idle"]
    /\ xenova = XenovaService
    /\ retriever = NoRetriever
    /\ connection = NewConnection
    /\ server = NewServer
    /\ ragService = NewRAGService
    /\ stdio = NewStdioServer

\* Calls are issued one at a time: last holds the outcome of a call until the
\* caller has taken it
Idle == last.op = "idle"

Return ==
    /\ ~Idle
    /\ last' = [op |-> "idle"]
    /\ UNCHANGED <<aside, config, tools, documents, bm25_stats, nextId>>

AddDocumentCall(document, backendUp, backendLen, connUp) ==
    LET r == addDocument(provider, CurrentDB, document, backendUp,
                         backendLen, connUp)
    IN  /\ Idle
        /\ Len(documents) < MaxDocs
        /\ Commit(r.db)
        /\ last' = [op |-> "addDocument", content |-> document.content,
                    embeddingLen |-> document.embedding.len,
                    ok |-> r.ok, id |-> r.id, error |-> r.error,
                    embedCalled |-> r.embedCalled,
                    backendCalled |-> r.backendCalled,
                    storeCalled |-> r.storeCalled]
        /\ UNCHANGED <<aside, config, tools>>

\* DatabaseConnector.generateEmbedding(text) -> embeddingService
GenerateEmbedding ==
    \E text \in SampleTexts, backendUp \in BOOLEAN, backendLen \in BackendLens :
        \E e \in {generateEmbedding(provider, text, backendUp, backendLen)} :
            /\ Idle
            /\ last' = [op |-> "generateEmbedding", text |-> text,
                        ok |-> e.ok, error |-> e.error,
                        dimensions |-> e.vector.len,
                        backendCalled |-> e.backendCalled]
            /\ UNCHANGED <<aside, config, tools, documents, bm25_stats, nextId>>

AddDocument ==
    \E document \in SampleDocuments, backendUp \in BOOLEAN,
       backendLen \in BackendLens, connUp \in BOOLEAN :
        /\ nextId <= MaxIds
        /\ AddDocumentCall(document, backendUp, backendLen, connUp)

FaultFree(faults) == \A k \in DOMAIN faults : faults[k] = "none"

AddDocuments ==
    \E docs \in SeqsUpTo(SampleDocuments, MaxBatch), faults \in FaultPlans :
        /\ Idle
        /\ Len(documents) + Len(docs) <= MaxDocs
        /\ \E r \in {addDocuments(provider, CurrentDB, docs, faults)} :
               /\ Commit(r.db)
               /\ last' = [op |-> "addDocuments", rows |-> Len(docs),
                           faultFree |-> FaultFree(faults),
                           success |-> r.success, imported |-> r.imported,
                           failed |-> r.failed, errors |-> Len(r.errors),
                           stored |-> Len(r.db.documents) - Len(documents),
                           chunks |-> r.chunks]
        /\ UNCHANGED <<aside, config, tools>>

TransformCSVRow ==
    \E headers \in CSVHeaders, values \in CSVValues, validateText \in BOOLEAN :
        \E t \in {transformCSVRow(headers, values, validateText)} :
            /\ Idle
            /\ last' = [op |-> "transformCSVRow", headers |-> headers,
                        values |-> values, validateText |-> validateText,
                        kind |-> t.kind, content |-> t.doc.content,
                        title |-> t.doc.title]
            /\ UNCHANGED <<aside, config, tools, documents, bm25_stats, nextId>>

\* the import_from_csv tool on a file whose rows all fail validation
ImportFromCSVTool ==
    \E file \in BlankRowFiles, via \in {"rag-tools", "server"} :
        \E result \in {importFromCSV(provider, CurrentDB, file, TRUE,
                                      [k \in 1..MaxRows |-> "none"])} :
            /\ Idle
            /\ Commit(result.db)
            /\ last' = [op |-> "import_from_csv", via |-> via,
                        rows |-> Len(file.rows),
                        imported |-> result.imported,
                        failed |-> result.failed,
                        connectorErrors |-> Len(result.errors),
                        errors |-> Len(ImportFromCSVToolResponse(via, result).errors)]
            /\ UNCHANGED <<aside, config, tools>>

\* the rows of a file that have resolvable, non-empty content
ValidRows(file) ==
    Cardinality({ i \in 1..Len(file.rows) :
        transformCSVRow(file.headers, file.rows[i], TRUE).kind = "doc" })

ImportFromCSV ==
    \E file \in SampleFiles, validateText \in BOOLEAN, faults \in FaultPlans :
        /\ Idle
        /\ Len(documents) + Len(file.rows) <= MaxDocs
        /\ \E r \in {importFromCSV(provider, CurrentDB, file, validateText,
                                    faults)} :
               /\ Commit(r.db)
               /\ last' = [op |-> "importFromCSV", rows |-> Len(file.rows),
                           valid |-> ValidRows(file),
                           validateText |-> validateText,
                           faultFree |-> FaultFree(faults),
                           success |-> r.success, imported |-> r.imported,
                           failed |-> r.failed, errors |-> Len(r.errors)]
        /\ UNCHANGED <<aside, config, tools>>

UpdateDocument ==
    \E id \in Ids, patch \in SamplePatches, backendUp \in BOOLEAN,
       backendLen \in BackendLens, connUp \in BOOLEAN :
        LET r == updateDocument(provider, CurrentDB, id, patch, backendUp,
                                backendLen, connUp)
        IN  /\ Idle
            /\ Commit(r.db)
            /\ last' = [op |-> "updateDocument", id |-> id,
                        hasTitle |-> patch.hasTitle,
                        hasContent |-> patch.hasContent,
                        hasMetadata |-> patch.hasMetadata,
                        blank |-> trim(patch.content) = <<>>,
                        supplied |-> patch.embedding,
                        generated |-> generateEmbedding(provider, patch.content,
                                         backendUp, backendLen).vector,
                        ok |-> r.ok, wrote |-> r.wrote]
            /\ UNCHANGED <<aside, config, tools>>

DeleteDocument ==
    \E id \in Ids :
        /\ Idle
        /\ Commit(deleteDocument(CurrentDB, id))
        /\ last' = [op |-> "deleteDocument", id |-> id]
        /\ UNCHANGED <<aside, config, tools>>

ClearAllDocuments ==
    /\ Idle
    /\ Commit(clearAllDocuments(CurrentDB))
    /\ last' = [op |-> "clearAllDocuments"]
    /\ UNCHANGED <<aside, config, tools>>

ResetDatabase ==
    /\ Idle
    /\ Commit(resetDatabase(CurrentDB))
    /\ last' = [op |-> "resetDatabase"]
    /\ UNCHANGED <<aside, config, tools>>

RemoveDocument ==
    \E id \in Ids, connUp \in BOOLEAN :
        LET r == removeDocument(CurrentDB, id, connUp)
        IN  /\ Idle
            /\ Commit(r.db)
            /\ last' = [op |-> "removeDocument", id |-> id, ok |-> connUp,
                        removed |-> r.removed]
            /\ UNCHANGED <<aside, config, tools>>

RemoveDocumentTool ==
    \E id \in Ids :
        LET r == RemoveDocumentToolHandler(CurrentDB, id)
        IN  /\ Idle
            /\ Commit(r.db)
            /\ last' = [op |-> "remove_document", id |-> id,
                        success |-> r.success]
            /\ UNCHANGED <<aside, config, tools>>

\* addDocument with the embedding backend and the database up
SeedDocument ==
    \E document \in SampleDocuments :
        AddDocumentCall(document, TRUE, getDimensions(provider), TRUE)

\* a search leaves the store alone and hands its result list to the caller
Answer(op, args, result) ==
    /\ Idle
    /\ last' = [op |-> op, args |-> args, result |-> result]
    /\ UNCHANGED <<aside, config, tools, documents, bm25_stats, nextId>>

VectorSearch ==
    \E embedding \in QueryEmbeddings \ {NoEmbedding}, limit \in Limits,
       threshold \in Thresholds :
        Answer("vectorSearch",
               SearchOptions(TEmpty, embedding, limit, threshold, "false",
                             Undefined, Undefined),
               vectorSearch(documents, embedding, limit, threshold))

Bm25Search ==
    \E query \in Queries, limit \in Limits :
        Answer("bm25Search",
               SearchOptions(query, NoEmbedding, limit, Undefined, "unset",
                             Undefined, Undefined),
               bm25Search(documents, bm25_stats, query, Default(limit, 5),
                          lexicalInstalled))

HybridSearch ==
    \E query \in Queries, embedding \in QueryEmbeddings, limit \in Limits,
       threshold \in Thresholds, bm25Weight \in Bm25Weights,
       vectorWeight \in VectorWeights :
        LET options == SearchOptions(query, embedding, limit, threshold,
                                     "unset", bm25Weight, vectorWeight)
        IN  Answer("hybridSearch", options,
                   hybridSearch(documents, bm25_stats, query, options,
                                lexicalInstalled))

Search ==
    \E query \in Queries, limit \in Limits, threshold \in Thresholds,
       useHybrid \in HybridFlags \cup {"true"}, bm25Weight \in Bm25Weights,
       vectorWeight \in VectorWeights :
        LET options == SearchOptions(query, NoEmbedding, limit, threshold,
                                     useHybrid, bm25Weight, vectorWeight)
        IN  /\ Idle
            /\ last' = [op |-> "search", args |-> options,
                        result |-> search(provider, documents, bm25_stats,
                                          options, lexicalInstalled),
                        calls |-> searchCalls(provider, options)]
            /\ UNCHANGED <<aside, config, tools, documents, bm25_stats, nextId>>

HandleQueryDocuments ==
    \E query \in Queries, limit \in Limits, threshold \in Thresholds,
       useHybrid \in HybridFlags, bm25Weight \in Bm25Weights,
       vectorWeight \in VectorWeights :
        LET args == SearchOptions(query, NoEmbedding, limit, threshold,
                                  useHybrid, bm25Weight, vectorWeight)
        IN  Answer("handleQueryDocuments", args,
                   handleQueryDocuments(provider, documents, bm25_stats,
                                        args, lexicalInstalled).results)

QueryDocumentsTool ==
    \E query \in Queries, limit \in Limits, threshold \in Thresholds,
       useHybrid \in HybridFlags, bm25Weight \in Bm25Weights,
       vectorWeight \in VectorWeights :
        LET params == SearchOptions(query, NoEmbedding, limit, threshold,
                                    useHybrid, bm25Weight, vectorWeight)
        IN  Answer("query_documents", params,
                   registerQueryDocumentsTool(documents, params))

SimpleRetrieverSearch ==
    \E query \in Queries, limit \in Limits, threshold \in Thresholds :
        Answer("simpleSearch",
               SearchOptions(query, NoEmbedding, limit, threshold, "false",
                             Undefined, Undefined),
               SimpleSearch(documents, query, limit, threshold))

\* MCPServer.addTool(tool): this.tools.set(tool.name, tool)
AddTool ==
    \E name \in ToolNames :
        /\ Idle
        /\ tools' = tools \cup {name}
        /\ last' = [op |-> "addTool", name |-> name]
        /\ UNCHANGED <<aside, config, documents, bm25_stats, nextId>>

\* MCPServer.removeTool(name): this.tools.delete(name)
RemoveTool ==
    \E name \in CalledNames :
        /\ Idle
        /\ tools' = tools \ {name}
        /\ last' = [op |-> "removeTool", name |-> name,
                    removed |-> name \in tools]
        /\ UNCHANGED <<aside, config, documents, bm25_stats, nextId>>

CallTool ==
    \E name \in CalledNames, args \in SampleToolArgs, connUp \in BOOLEAN :
        \E r \in {callTool(tools, name, args, provider, CurrentDB,
                            lexicalInstalled, connUp)} :
            /\ Idle
            /\ Commit(r.db)
            /\ last' = [op |-> "callTool", name |-> name,
                        registered |-> name \in tools,
                        valid |-> inputSchemaParse(name, args).ok,
                        rejected |-> r.rejected, success |-> r.success,
                        error |-> r.error,
                        handlerCalled |-> r.handlerCalled,
                        handlerArgsValid |->
                            inputSchemaParse(name, r.handlerArgs).ok]
            /\ UNCHANGED <<aside, config, tools>>

\* A caller starts one of the service's methods: the generate methods reject
\* blank input before they touch the pipeline, everything else enters
\* initializePipeline
XenovaCall ==
    \E c \in Calls, method \in Methods, textValid \in BOOLEAN :
        /\ xenova.calls[c].pc = "none"
        /\ method \in {"initializePipeline", "isAvailable"} => textValid
        /\ xenova' = [xenova EXCEPT !.calls[c] =
              IF ~textValid
              THEN [pc |-> "failed", method |-> method, used |-> 0]
              ELSE initializePipeline(xenova, method)]
        /\ UNCHANGED beside_xenova

\* this.pipeline = await pipeline('feature-extraction', model) settles for a
\* call that found the field null: the loaded model is assigned to the field
\* whatever the field holds by now, or the load fails and the call rejects
PipelineLoaded ==
    \E c \in Calls, loaded \in BOOLEAN :
        /\ xenova.calls[c].pc = "loading"
        /\ xenova.loads < MaxLoads
        /\ xenova' =
              IF loaded
              THEN [xenova EXCEPT
                      !.loads = @ + 1,
                      !.pipeline = xenova.loads + 1,
                      !.calls[c] = afterInitializePipeline(
                          xenova.calls[c].method, xenova.loads + 1)]
              ELSE [xenova EXCEPT
                      !.calls[c] = [pc |-> "failed",
                                    method |-> xenova.calls[c].method,
                                    used |-> 0]]
        /\ UNCHANGED beside_xenova

\* isAvailable goes on to generateEmbedding('test'), which enters
\* initializePipeline again and finds the field as it is now
IsAvailableTest ==
    \E c \in Calls :
        /\ xenova.calls[c].pc = "test"
        /\ xenova' = [xenova EXCEPT !.calls[c] =
              initializePipeline(xenova, "generateEmbedding")]
        /\ UNCHANGED beside_xenova

\* the model run of a generate method settles
Inference ==
    \E c \in Calls :
        /\ xenova.calls[c].pc = "inference"
        /\ xenova' = [xenova EXCEPT !.calls[c].pc = "returned"]
        /\ UNCHANGED beside_xenova

\* the caller takes the outcome of a settled call
XenovaSettled ==
    \E c \in Calls :
        /\ xenova.calls[c].pc \in {"returned", "failed"}
        /\ xenova' = [xenova EXCEPT !.calls[c] = NoCall]
        /\ UNCHANGED beside_xenova

\* new PostgreSQLRetriever / SimplePersistentRetriever / SimpleRetriever,
\* initialised over an empty store
ConstructRetriever ==
    \E kind \in RetrieverKinds :
        /\ retriever.kind = "none"
        /\ retriever' = NewRetriever(kind)
        /\ UNCHANGED beside_retriever

\* addDocument(id, content, metadata) up to its first await.  SimpleRetriever
\* has none: it stores the document and its embedding and returns.  The other
\* two wait for the embedding of the content
LegacyAddDocument ==
    \E c \in Writers, id \in DocIds :
        /\ retriever.kind # "none"
        /\ retriever.calls[c].pc = "none"
        /\ retriever' =
              IF retriever.kind = "simple"
              THEN [StoreBoth(retriever, c, id) EXCEPT !.calls[c] =
                        InFlight("done", "addDocument", id, EmptyMap)]
              ELSE [retriever EXCEPT !.calls[c] =
                        InFlight("embedding", "addDocument", id, EmptyMap)]
        /\ UNCHANGED beside_retriever

\* await this.generateEmbedding(content) settles: on an error addDocument
\* rethrows; the PostgreSQL retriever sends its upsert, the persistent one
\* sets both maps and starts saveToDisk
LegacyEmbeddingGenerated ==
    \E c \in Writers, generated \in BOOLEAN :
        /\ retriever.calls[c].pc = "embedding"
        /\ retriever' =
              IF ~generated
              THEN [retriever EXCEPT !.calls[c].pc = "failed"]
              ELSE IF retriever.kind = "postgresql"
              THEN [retriever EXCEPT !.calls[c].pc = "query"]
              ELSE saveToDisk(
                       StoreBoth(retriever, c, retriever.calls[c].id), c)
        /\ UNCHANGED beside_retriever

\* await this.client.query(query, values) settles: the upsert has written the
\* row, or the query failed and addDocument rethrows
LegacyQueryCompleted ==
    \E c \in Writers, executed \in BOOLEAN :
        /\ retriever.calls[c].pc = "query"
        /\ retriever' =
              IF executed
              THEN [StoreBoth(retriever, c, retriever.calls[c].id)
                        EXCEPT !.calls[c].pc = "done"]
              ELSE [retriever EXCEPT !.calls[c].pc = "failed"]
        /\ UNCHANGED beside_retriever

\* the write of documents.json settles: the file holds what this call
\* serialised; the embeddings are serialised as they are now and the write of
\* embeddings.json is under way
DocumentsWritten ==
    \E c \in Writers :
        /\ retriever.calls[c].pc = "writingDocuments"
        /\ retriever' = [retriever EXCEPT
              !.documentsFile = retriever.calls[c].snapshot,
              !.calls[c].pc = "writingEmbeddings",
              !.calls[c].snapshot = retriever.embeddings]
        /\ UNCHANGED beside_retriever

\* the write of embeddings.json settles and the call returns
EmbeddingsWritten ==
    \E c \in Writers :
        /\ retriever.calls[c].pc = "writingEmbeddings"
        /\ retriever' = [retriever EXCEPT
              !.embeddingsFile = retriever.calls[c].snapshot,
              !.calls[c].pc = "done",
              !.calls[c].snapshot = EmptyMap]
        /\ UNCHANGED beside_retriever

\* removeDocument(id) of the two in-memory retrievers: the persistent one
\* saves when something was removed
LegacyRemoveDocument ==
    \E c \in Writers, id \in DocIds :
        /\ retriever.kind \in {"persistent", "simple"}
        /\ retriever.calls[c].pc = "none"
        /\ \E removed \in {retriever.documents[id] # Absent
                             /\ retriever.embeddings[id] # Absent} :
              retriever' =
                  IF removed /\ retriever.kind = "persistent"
                  THEN saveToDisk(
                           [DeleteBoth(retriever, id) EXCEPT !.calls[c] =
                               InFlight("none", "removeDocument", id, EmptyMap)],
                           c)
                  ELSE [DeleteBoth(retriever, id) EXCEPT !.calls[c] =
                           InFlight("done", "removeDocument", id, EmptyMap)]
        /\ UNCHANGED beside_retriever

\* the caller takes the outcome of a settled call
LegacySettled ==
    \E c \in Writers :
        /\ retriever.calls[c].pc \in {"done", "failed"}
        /\ retriever' = [retriever EXCEPT !.calls[c] = Resting]
        /\ UNCHANGED beside_retriever

\* a caller starts one of the connection's methods
ConnectionCall ==
    \E op \in ConnectionOps :
        /\ connection.call.pc = "none"
        /\ connection' =
              CASE op = "connect" -> connect(connection)
                [] op = "disconnect" -> disconnect(connection)
                [] op = "query" -> whenConnected(connection, op, "querying")
                [] OTHER -> whenConnected(connection, op, "acquire")
        /\ UNCHANGED beside_connection

\* await this.pool.connect() settles: connect goes on to its test query,
\* transaction issues BEGIN, getClient hands the client to its caller
ClientAcquired ==
    \E ok \in BOOLEAN :
        /\ connection.call.pc = "acquire"
        /\ connection' = [connection EXCEPT !.call =
              IF ~ok THEN Rejected(connection.call.op, "acquire")
              ELSE CASE connection.call.op = "connect" ->
                          [@ EXCEPT !.pc = "testQuery"]
                     [] connection.call.op = "transaction" ->
                          [@ EXCEPT !.pc = "begin", !.log = <<"BEGIN">>]
                     [] OTHER -> [@ EXCEPT !.pc = "resolved"]]
        /\ UNCHANGED beside_connection

\* await client.query('SELECT 1') settles; finally releases the client
TestQueryDone ==
    \E ok \in BOOLEAN :
        /\ connection.call.pc = "testQuery"
        /\ connection' = [connection EXCEPT
              !.tested = ok,
              !.call.released = @ + 1,
              !.call.pc = IF ok THEN "resolved" ELSE "rejected",
              !.call.error = IF ok THEN "none" ELSE "statement"]
        /\ UNCHANGED beside_connection

\* await this.pool.query(sql, params) settles
QueryDone ==
    \E ok \in BOOLEAN :
        /\ connection.call.pc = "querying"
        /\ connection' = [connection EXCEPT
              !.call.pc = IF ok THEN "resolved" ELSE "rejected",
              !.call.error = IF ok THEN "none" ELSE "statement"]
        /\ UNCHANGED beside_connection

\* one await of transaction() settles
TransactionAwaited ==
    \E ok \in BOOLEAN, value \in CallbackResults :
        /\ connection.call.pc \in {"begin", "callback", "commit", "rollback"}
        /\ connection' = [connection EXCEPT !.call =
              transactionAwaited(connection.call, ok, value)]
        /\ UNCHANGED beside_connection

\* await this.pool.end() settles; the field is cleared after it
PoolEnded ==
    \E ok \in BOOLEAN :
        /\ connection.call.pc = "ending"
        /\ connection' =
              IF ok
              THEN [connection EXCEPT !.pool = FALSE, !.tested = FALSE,
                                      !.call.pc = "resolved"]
              ELSE [connection EXCEPT !.call.pc = "rejected",
                                      !.call.error = "end"]
        /\ UNCHANGED beside_connection

\* the caller takes the outcome of a settled call
ConnectionSettled ==
    /\ connection.call.pc \in {"resolved", "rejected"}
    /\ connection' = [connection EXCEPT !.call = NoConnectionCall]
    /\ UNCHANGED beside_connection

\* a tool call enters initializeConnector
InitializeConnector ==
    \E c \in Calls, tool \in ServerTools :
        /\ server.calls[c].pc = "none"
        /\ server' = initializeConnector(server, c, tool)
        /\ UNCHANGED beside_server

\* await connector.connect() settles: on an error the tool call fails
ConnectorConnected ==
    \E c \in Calls, ok \in BOOLEAN :
        /\ server.calls[c].pc = "connecting"
        /\ server' =
              IF ok
              THEN [server EXCEPT !.connected = TRUE,
                                  !.calls[c].pc = "initializing"]
              ELSE [server EXCEPT !.calls[c].pc = "rejected"]
        /\ UNCHANGED beside_server

\* await connector.initializeDatabase() settles: initializeConnector returns
\* the connector, or the tool call fails
DatabaseInitialized ==
    \E c \in Calls, ok \in BOOLEAN :
        /\ server.calls[c].pc = "initializing"
        /\ server' =
              IF ok
              THEN [server EXCEPT !.initialized = TRUE,
                       !.calls[c].pc = "returned",
                       !.calls[c].ready = server.connected]
              ELSE [server EXCEPT !.calls[c].pc = "rejected"]
        /\ UNCHANGED beside_server

\* the tool call has used the connector, or has failed, and ends
ToolCallEnded ==
    \E c \in Calls :
        /\ server.calls[c].pc \in {"returned", "rejected"}
        /\ server' = [server EXCEPT !.calls[c] = NoToolCall]
        /\ UNCHANGED beside_server

\* a caller starts a public operation: each begins with
\* await this.ensureInitialized(), that is await this.initialize()
RAGServiceCall ==
    \E c \in Calls, op \in RAGOperations :
        /\ ragService.calls[c].pc = "none"
        /\ ragService' = [initialize(ragService) EXCEPT
              !.calls[c] = [pc |-> "awaiting", op |-> op]]
        /\ UNCHANGED beside_ragService

\* _doInitialize: the two dynamic imports settle; retriever and generator
\* are constructed and retriever.initialize() is awaited
ComponentsImported ==
    \E ok \in BOOLEAN :
        /\ ragService.promise = "importing"
        /\ ragService' =
              IF ok
              THEN [ragService EXCEPT !.promise = "initializing",
                                      !.components = TRUE]
              ELSE [ragService EXCEPT !.promise = "rejected"]
        /\ UNCHANGED beside_ragService

\* _doInitialize: await this.retriever.initialize() settles
RetrieverInitialized ==
    \E ok \in BOOLEAN :
        /\ ragService.promise = "initializing"
        /\ ragService' = [ragService EXCEPT
              !.promise = IF ok THEN "fulfilled" ELSE "rejected"]
        /\ UNCHANGED beside_ragService

\* the promise a call awaits has settled: the call goes on to use the
\* retriever or the generator, or rejects with the error of the run
InitializationAwaited ==
    \E c \in Calls :
        /\ ragService.calls[c].pc = "awaiting"
        /\ ragService.promise \in {"fulfilled", "rejected"}
        /\ ragService' = [ragService EXCEPT !.calls[c].pc =
              IF ragService.promise = "rejected" THEN "rejected"
              ELSE IF ragService.calls[c].op = "initialize" THEN "resolved"
              ELSE "using"]
        /\ UNCHANGED beside_ragService

\* the call of the retriever or the generator settles
ComponentUsed ==
    \E c \in Calls, ok \in BOOLEAN :
        /\ ragService.calls[c].pc = "using"
        /\ ragService' = [ragService EXCEPT !.calls[c].pc =
              IF ok THEN "resolved" ELSE "rejected"]
        /\ UNCHANGED beside_ragService

\* the caller takes the outcome of a settled call
RAGServiceSettled ==
    \E c \in Calls :
        /\ ragService.calls[c].pc \in {"resolved", "rejected"}
        /\ ragService' = [ragService EXCEPT !.calls[c] = NoRAGCall]
        /\ UNCHANGED beside_ragService

\* process.stdin emits 'data': the chunk is trimmed and handed to
\* handleMCPMessage as one message
StdinData ==
    \E lines \in {<<>>} \cup SeqsUpTo(MessageKinds, MaxLines) :
        /\ stdio.sent + Len(lines) <= MaxRequests
        /\ stdio' = [handleMCPMessage(stdio, lines, stdio.sent + 1) EXCEPT
              !.sent = @ + Len(lines),
              !.received = @ \cup Requests(lines, stdio.sent + 1)]
        /\ UNCHANGED beside_stdio

\* await this.callTool(name, args) settles in handleToolCall: the result, or
\* error -32000 when the tool throws, is written with the id of the request
ToolCallSettled ==
    \E id \in stdio.pending, ok \in BOOLEAN :
        /\ stdio' = [stdio EXCEPT
              !.pending = @ \ {id},
              !.written = Append(@, Response(id, IF ok THEN 0 ELSE -32000))]
        /\ UNCHANGED beside_stdio

\* The document store: single-document writes, removal and reset
Next ==
    \/ AddDocument
    \/ GenerateEmbedding
    \/ UpdateDocument
    \/ DeleteDocument
    \/ ClearAllDocuments
    \/ ResetDatabase
    \/ RemoveDocument
    \/ RemoveDocumentTool
    \/ Return

Spec == Init /\ [][Next]_vars

\* Batch ingestion
NextImport ==
    \/ AddDocuments
    \/ ImportFromCSVTool
    \/ ImportFromCSV
    \/ Return

SpecImport == Init /\ [][NextImport]_vars

\* addDocuments alone: the chunk loop and its transactions
NextBatch ==
    \/ AddDocuments
    \/ Return

SpecBatch == Init /\ [][NextBatch]_vars

\* The mapping of CSV rows to documents
NextCSV ==
    \/ TransformCSVRow
    \/ Return

SpecCSV == Init /\ [][NextCSV]_vars

\* The MCP server's tool registry
NextTools ==
    \/ AddTool
    \/ RemoveTool
    \/ CallTool
    \/ Return

SpecTools == Init /\ [][NextTools]_vars

\* Retrieval over a seeded store
NextSearch ==
    \/ SeedDocument
    \/ VectorSearch
    \/ Bm25Search
    \/ HybridSearch
    \/ Search
    \/ HandleQueryDocuments
    \/ QueryDocumentsTool
    \/ SimpleRetrieverSearch
    \/ Return

SpecSearch == Init /\ [][NextSearch]_vars

\* One XenovaEmbeddingService and its concurrent callers
NextPipeline ==
    \/ XenovaCall
    \/ PipelineLoaded
    \/ IsAvailableTest
    \/ Inference
    \/ XenovaSettled

SpecPipeline == Init /\ [][NextPipeline]_vars

\* One legacy retriever and its concurrent callers
NextRetriever ==
    \/ ConstructRetriever
    \/ LegacyAddDocument
    \/ LegacyEmbeddingGenerated
    \/ LegacyQueryCompleted
    \/ DocumentsWritten
    \/ EmbeddingsWritten
    \/ LegacyRemoveDocument
    \/ LegacySettled

SpecRetriever == Init /\ [][NextRetriever]_vars

\* One PostgreSQLConnection and its caller
NextConnection ==
    \/ ConnectionCall
    \/ ClientAcquired
    \/ TestQueryDone
    \/ QueryDone
    \/ TransactionAwaited
    \/ PoolEnded
    \/ ConnectionSettled

SpecConnection == Init /\ [][NextConnection]_vars

\* The server's connector and its concurrent tool calls
NextServer ==
    \/ InitializeConnector
    \/ ConnectorConnected
    \/ DatabaseInitialized
    \/ ToolCallEnded

SpecServer == Init /\ [][NextServer]_vars

\* One RAGService and its concurrent callers
NextRAGService ==
    \/ RAGServiceCall
    \/ ComponentsImported
    \/ RetrieverInitialized
    \/ InitializationAwaited
    \/ ComponentUsed
    \/ RAGServiceSettled

SpecRAGService == Init /\ [][NextRAGService]_vars

\* One StdioMCPServer and its client
NextStdio ==
    \/ StdinData
    \/ ToolCallSettled

SpecStdio == Init /\ [][NextStdio]_vars

----------------------------------------------------------------------------
(* Properties *)

\* C1: an importFromCSV call with validateText on, on a file with N rows that
\* have resolvable non-empty content and M rows without, reports
\* imported = N and failed = M, and the document count afterwards is exactly
\* N higher than before (Xenova connector, no backend or database fault).
C1_ImportCountsValidRows ==
    [][ (/\ last'.op = "importFromCSV"
         /\ last'.validateText
         /\ last'.faultFree
         /\ provider = "xenova")
        => (/\ last'.imported = last'.valid
            /\ last'.failed = last'.rows - last'.valid
            /\ getDocumentCount(documents')
                 = getDocumentCount(documents) + last'.valid) ]_vars

\* C2: every importFromCSV / addDocuments call that returns a result counts
\* each input row exactly once: imported + failed = number of rows.
C2_EveryRowCountedOnce ==
    last.op \in {"importFromCSV", "addDocuments"}
        => last.imported + last.failed = last.rows

\* the ids of a result list, in order
ResultIds(result) == [k \in 1..Len(result.rows) |-> result.rows[k].id]

\* the query embedding a search worked with: the caller's, or the one the
\* engine made from the query text
EmbeddingUsed(args) ==
    IF args.queryEmbedding.present THEN args.queryEmbedding
    ELSE RetrieverEmbedding(args.query)

SearchOps ==
    {"vectorSearch", "hybridSearch", "search", "handleQueryDocuments",
     "query_documents", "simpleSearch"}

\* C3: in a hybrid search no stored document whose vector similarity to the
\* query embedding is below the threshold appears in the result list, whatever
\* its BM25 score and the weights: the threshold filters on the vector
\* similarity before fusion, never on the fused score.
C3_FilterThenFuse ==
    (/\ last.op \in SearchOps
     /\ last.result.ok
     /\ last.result.scoredBy = "hybrid")
    => \A i \in 1..Len(documents) :
         CosineSimilarity(documents[i].embedding, EmbeddingUsed(last.args))
             < Default(last.args.threshold, 5)
         => \A k \in 1..Len(last.result.rows) :
              last.result.rows[k].id # documents[i].id

\* C3 witness: a hybrid search left out a document whose similarity is below
\* the threshold although its fused score would be above it
C3_Witness ==
    /\ last.op = "hybridSearch"
    /\ last.result.ok
    /\ last.result.scoredBy = "hybrid"
    /\ \E i \in 1..Len(documents) :
         LET sim == CosineSimilarity(documents[i].embedding,
                                     last.args.queryEmbedding)
             bm == bm25_score(documents, QueryTerms(last.args.query),
                              documents[i], bm25_stats)
         IN  /\ sim < Default(last.args.threshold, 5)
             /\ bm > 0
             /\ last.args.vectorWeight * sim * 100
                  + last.args.bm25Weight * Min(bm, 10000)
                > Default(last.args.threshold, 5) * 1000
             /\ \A k \in 1..Len(last.result.rows) :
                  last.result.rows[k].id # documents[i].id

\* the same request answered in vector-only mode
VectorOnly(op, args) ==
    LET off == [args EXCEPT !.useHybrid = "false"]
    IN  CASE op = "hybridSearch" ->
               vectorSearch(documents, args.queryEmbedding, args.limit,
                            args.threshold)
          [] op = "search" ->
               search(provider, documents, bm25_stats, off, lexicalInstalled)
          [] op = "handleQueryDocuments" ->
               handleQueryDocuments(provider, documents, bm25_stats, off,
                                    lexicalInstalled).results
          [] op = "query_documents" -> registerQueryDocumentsTool(documents, off)

\* C4: for the same query, query embedding, threshold and limit, a search in
\* hybrid mode with bm25Weight = 0 returns the same documents in the same
\* order as the vector-only search, also through the query_documents handlers.
C4_ZeroBm25WeightIsVectorOnly ==
    (/\ last.op \in {"hybridSearch", "search", "handleQueryDocuments",
                     "query_documents"}
     /\ last.args.useHybrid # "false"
     /\ last.op = "hybridSearch" => last.args.queryEmbedding.present
     /\ last.args.bm25Weight = 0
     /\ last.args.vectorWeight > 0
     /\ last.result.ok
     /\ VectorOnly(last.op, last.args).ok)
    => ResultIds(last.result) = ResultIds(VectorOnly(last.op, last.args))

\* C5: the fused score of every hybrid result is
\* vectorWeight * vectorSimilarity + bm25Weight * min(bm25Score / 10, 1),
\* with the two weights exactly as the caller supplied them.
C5_FusedScoreFormula ==
    (/\ last.op \in SearchOps
     /\ last.result.ok
     /\ last.result.scoredBy = "hybrid")
    => \A k \in 1..Len(last.result.rows) :
         LET row == last.result.rows[k]
         IN  row.score = last.args.vectorWeight * row.vector_score * 100
                         + last.args.bm25Weight * Min(row.bm25_score, 10000)

\* the result list the vector-only contract asks for: the stored documents
\* with similarity >= threshold, best first, cut to limit
AtLeastThreshold(docs, embedding, limit, threshold) ==
    LET cand == SelectSeq(docs, HasEmbedding)
        scored == [i \in 1..Len(cand) |->
                     Row(cand[i].id, CosineSimilarity(cand[i].embedding, embedding),
                         CosineSimilarity(cand[i].embedding, embedding), 0)]
        Kept(r) == r.score >= threshold
    IN  Limit(OrderByDesc(SelectSeq(scored, Kept)), limit)

\* C6: a vector-only search returns exactly the stored documents whose
\* similarity to the query embedding is >= threshold (equality is kept), by
\* descending similarity, cut to the first `limit`.
C6_VectorOnlyKeepsAtLeastThreshold ==
    (/\ last.op \in SearchOps
     /\ last.op \in {"vectorSearch", "simpleSearch"}
          \/ last.args.useHybrid = "false"
     /\ last.args.threshold # Undefined
     /\ last.result.ok)
    => ResultIds(last.result)
         = [k \in 1..Len(AtLeastThreshold(documents, EmbeddingUsed(last.args),
                            Default(last.args.limit, 5), last.args.threshold))
              |-> AtLeastThreshold(documents, EmbeddingUsed(last.args),
                      Default(last.args.limit, 5), last.args.threshold)[k].id]

\* C7: a hybrid search requested without a query embedding (hybridSearch
\* directly, or search() with useHybrid not false) never hands back a result
\* list scored by another mode.
C7_NoSilentFallback ==
    (/\ last.op \in {"hybridSearch", "search"}
     /\ last.args.useHybrid # "false"
     /\ ~last.args.queryEmbedding.present
     /\ last.result.ok)
    => last.result.scoredBy = "hybrid"

\* C8: removing an id that is not stored reports not-found (false) and leaves
\* every stored document unchanged; a removal never reports success for an
\* id that was not stored.
C8_RemoveMissingReportsNotFound ==
    [][ (/\ last'.op \in {"removeDocument", "remove_document"}
         /\ ~HasDocument(documents, last'.id)
         /\ last'.op = "removeDocument" => last'.ok)
        => (/\ documents' = documents
            /\ last'.op = "removeDocument" => ~last'.removed
            /\ last'.op = "remove_document" => ~last'.success) ]_vars

\* C9: every stored document has an embedding whose length is the active
\* provider's dimensions, and after a successful addDocument the document
\* fetched by the returned id has exactly the submitted content.
C9_EmbeddingLengthIsProviderDimensions ==
    /\ \A i \in 1..Len(documents) :
         /\ documents[i].embedding.present
         /\ documents[i].embedding.len = getDimensions(provider)
    /\ (last.op = "addDocument" /\ last.ok)
         => /\ HasDocument(documents, last.id)
            /\ getDocument(documents, last.id).content = last.content

\* C10: after every committed insert, content update, delete and reset the
\* statistics row has total_documents = number of stored documents and
\* average_document_length = their mean word count ((0, 0) for no documents).
C10_StatsReflectCommittedDocuments ==
    /\ bm25_stats.total_documents = getDocumentCount(documents)
    /\ bm25_stats.avg_num * getDocumentCount(documents)
         = SumSeq([i \in 1..Len(documents) |-> documents[i].word_count])
             * bm25_stats.avg_den
    /\ documents = <<>> => bm25_stats.avg_num = 0

\* a text that is empty or only whitespace
Blank(text) == text = <<>> \/ trim(text) = <<>>

\* C11: generateEmbedding fails with the validation error "Text cannot be
\* empty" for every text that is empty or only whitespace, and the backend
\* (model pipeline or remote API) is not called, in both providers;
\* addDocument with such content fails in validation, before any embedding
\* call and before any statement is sent to the store.
C11_BlankTextFailsBeforeBackend ==
    /\ (last.op = "generateEmbedding" /\ Blank(last.text)) =>
          /\ ~last.ok
          /\ last.error = "Text cannot be empty"
          /\ ~last.backendCalled
    /\ (last.op = "addDocument" /\ Blank(last.content)) =>
          /\ ~last.ok
          /\ last.error = "validation"
          /\ ~last.embedCalled /\ ~last.backendCalled /\ ~last.storeCalled

\* generateEmbedding was called with a text of one space while the backend
\* was reachable (a non-blank text reaches the backend in the same state)
C11_Witness ==
    /\ last.op = "generateEmbedding"
    /\ last.text = TBlank
    /\ ~last.ok

\* C12: callTool rejects only when no tool with the given name is
\* registered; for a registered tool it resolves, and with arguments that
\* fail the schema or a handler that throws it resolves to success: false
\* with an error; the handler is invoked only with arguments that passed
\* validation.
C12_CallToolRejectsOnlyUnknownTool ==
    last.op = "callTool" =>
        /\ last.rejected <=> ~last.registered
        /\ (last.registered /\ ~last.valid) =>
              (~last.success /\ ~last.handlerCalled /\ last.error # "")
        /\ (last.registered /\ last.error = "handler") =>
              (~last.success /\ last.handlerCalled)
        /\ last.handlerCalled => (last.valid /\ last.handlerArgsValid)

\* a registered tool was called with arguments that fail its schema
C12_Witness ==
    /\ last.op = "callTool"
    /\ last.registered
    /\ ~last.valid
    /\ ~last.rejected

\* C13: connector.search with useHybrid enabled calls
\* embeddingService.generateEmbedding with the query text and passes the
\* resulting vector to the search service: a hybrid search through search()
\* never reaches the search service without a query embedding.
C13_HybridSearchEmbedsQuery ==
    (last.op = "search" /\ last.args.useHybrid = "true") =>
        /\ last.calls.embedCalled
        /\ last.calls.embedding.present

\* the least element of a set of column positions
First(S) == CHOOSE i \in S : \A j \in S : i <= j

\* the cell the claim names: the first non-empty one of the columns content,
\* text, description, body in that order, else the cell of the first column
\* whose header contains content / text / beschreibung / inhalt
ContentCell(headers, values) ==
    LET aliases == <<"content", "text", "description", "body">>
        filled == { k \in 1..4 : Field(headers, values, aliases[k]) # <<>> }
        like == { i \in 1..Len(headers) : LooksLikeContent(headers[i]) }
    IN  IF filled # {} THEN Field(headers, values, aliases[First(filled)])
        ELSE IF like # {} THEN values[First(like)]
        ELSE <<>>

\* C14: transformCSVRow takes the content from the first non-empty column
\* among content, text, description, body in that order, and only if none
\* has a value from the first column whose lower-cased header contains
\* content, text, beschreibung or inhalt; the document's content is that
\* cell trimmed, and a row with such a cell that is not blank becomes a
\* document (so does a row whose only content column is headed Beschreibung).
C14_ContentAliasOrder ==
    last.op = "transformCSVRow" =>
        LET cell == ContentCell(last.headers, last.values)
        IN  /\ last.kind = "doc" => last.content = trim(cell)
            /\ (cell # <<>> /\ trim(cell) # <<>>) => last.kind = "doc"
            /\ cell = <<>> => last.kind # "doc"

\* a row whose only content column is headed Beschreibung, with a padded
\* value, became a document with the trimmed value as content
C14_Witness ==
    /\ last.op = "transformCSVRow"
    /\ last.headers = <<"Bezeichnung", "Beschreibung">>
    /\ last.values = <<TEmpty, TPadB>>
    /\ last.kind = "doc"
    /\ last.content = TB

\* ranks 1, 2, ..., n in list order, scores non-increasing, at most limit rows
WellRanked(rows, limit) ==
    /\ Len(rows) <= limit
    /\ \A i \in 1..Len(rows) : rows[i].rank = i
    /\ \A i \in 1..Len(rows) : \A j \in i..Len(rows) :
           rows[i].score >= rows[j].score

\* C15: every result list returned by vectorSearch, bm25Search and
\* hybridSearch (the BM25 fallback of hybridSearch included) has ranks
\* exactly 1, 2, ..., n in list order, scores that do not increase as the
\* rank grows, and at most limit entries (limit defaults to 5).
C15_RanksDenseScoresDescending ==
    (last.op \in {"vectorSearch", "bm25Search", "hybridSearch"}
       /\ last.result.ok) =>
        WellRanked(last.result.rows, Default(last.args.limit, 5))

\* hybridSearch answered with at least two rows of different fused score
C15_Witness ==
    /\ last.op = "hybridSearch"
    /\ last.args.queryEmbedding.present
    /\ last.result.ok
    /\ Len(last.result.rows) >= 2
    /\ last.result.rows[1].score > last.result.rows[2].score

\* C16: the errors list of a batch import result never exceeds a fixed
\* bound (the five entries the import_from_csv tool of RAGTools shows),
\* however many rows or chunks fail; this holds for the result of
\* importFromCSV / addDocuments itself and for the import_from_csv tool
\* response.
C16_ErrorsListIsCapped ==
    /\ last.op \in {"addDocuments", "importFromCSV", "import_from_csv"} =>
          last.errors <= ErrorsShown
    /\ last.op = "import_from_csv" => last.connectorErrors <= ErrorsShown

\* C17: in addDocuments, when the transaction of a chunk fails (is rolled
\* back, a failing COMMIT or an embedding failure inside it included), every
\* document of that chunk is counted in failed and none in imported; at
\* return imported equals the number of documents committed to the store.
C17_RolledBackChunkCountsAsFailed ==
    last.op = "addDocuments" =>
        /\ \A k \in 1..Len(last.chunks) :
              last.chunks[k].rolledBack =>
                  /\ last.chunks[k].failed = last.chunks[k].size
                  /\ last.chunks[k].imported = 0
        /\ last.imported = last.stored

\* the number of chunks addDocuments cuts n documents into
ChunkCount(p, n) == (n + batchSize(p) - 1) \div batchSize(p)

IsPrefix(s, t) == Len(s) <= Len(t) /\ SubSeq(t, 1, Len(s)) = s

\* C18: a chunk whose transaction fails changes nothing outside that chunk:
\* the documents stored before the call and those committed by earlier chunks
\* stay stored, every chunk (the later ones too) is processed in a
\* transaction of its own, and no transaction spans more than one chunk: the
\* store grows by exactly what the chunks that were not rolled back inserted,
\* and a rolled back chunk stores nothing.
C18_FailedChunkLeavesOthersAlone ==
    [][ last'.op = "addDocuments" =>
          /\ IsPrefix(documents, documents')
          /\ Len(last'.chunks) = ChunkCount(provider, last'.rows)
          /\ \A k \in 1..Len(last'.chunks) :
                /\ last'.chunks[k].size <= batchSize(provider)
                /\ last'.chunks[k].stored =
                      IF last'.chunks[k].rolledBack THEN 0
                      ELSE last'.chunks[k].imported
          /\ Len(documents') =
                Len(documents)
                  + SumSeq([k \in 1..Len(last'.chunks) |-> last'.chunks[k].stored])
      ]_vars

\* addDocuments processed two chunks: the first was rolled back and the
\* second stored a document
C18_Witness ==
    /\ last.op = "addDocuments"
    /\ Len(last.chunks) = 2
    /\ last.chunks[1].rolledBack
    /\ ~last.chunks[2].rolledBack
    /\ last.chunks[2].stored = 1

\* the connection was lost while chunk k was processed and stayed lost: BEGIN
\* failed in chunk k and in every chunk processed after it
ConnectionLost(chunks, k) ==
    \A j \in k..Len(chunks) : chunks[j].fault = "begin"

\* C19: when the store connection is lost while addDocuments is processing
\* chunk k, no chunk after k is attempted, and the documents committed by the
\* chunks before k remain stored.
C19_ConnectionLossAbortsRemainingChunks ==
    last.op = "addDocuments" =>
        \A k \in 1..Len(last.chunks) :
            ConnectionLost(last.chunks, k) =>
                /\ Len(last.chunks) = k
                /\ last.stored =
                      SumSeq([j \in 1..(k - 1) |-> last.chunks[j].stored])

\* the embedding the model generates from a document's own content
OwnEmbedding(content) == Embedding(XenovaDimensions, ModelOutput(trim(content)))

\* C20: in addDocuments every document stored without a caller-supplied
\* embedding gets the embedding generated from its own content: the index
\* into the batch of generated embeddings stays aligned with the documents
\* for every mix of documents with and without embeddings, with blank
\* content, and with per-document validation or insert failures.  (The one
\* caller-supplied embedding that can be stored in this model equals the
\* embedding of its document's content, so the property is stated for every
\* stored row.)
C20_StoredEmbeddingIsOwn ==
    provider = "xenova" =>
        \A i \in 1..Len(documents) :
            documents[i].embedding = OwnEmbedding(documents[i].content)

\* C21: one XenovaEmbeddingService loads the model pipeline at most once,
\* whatever calls of initializePipeline, generateEmbedding, generateEmbeddings
\* and isAvailable are in flight, and every call uses that one pipeline.
C21_PipelineLoadedAtMostOnce ==
    /\ xenova.loads <= 1
    /\ \A c \in Calls : xenova.calls[c].used \in {0, 1}

\* what the retriever has stored under an id: the table row of the PostgreSQL
\* retriever, the two files of the persistent one
StoredDocument(id) ==
    IF retriever.kind = "postgresql"
    THEN [document |-> retriever.documents[id],
          embedding |-> retriever.embeddings[id]]
    ELSE [document |-> retriever.documentsFile[id],
          embedding |-> retriever.embeddingsFile[id]]

\* two addDocument calls for the same id have both returned and nothing else
\* is in flight
TwoAddsReturned(id) ==
    \E c, d \in Writers :
        /\ c # d
        /\ \A e \in {c, d} :
              retriever.calls[e] = InFlight("done", "addDocument", id, EmptyMap)
        /\ \A e \in Writers \ {c, d} : retriever.calls[e].pc = "none"

\* C22: after two concurrent addDocument calls with the same id, one document
\* is stored under that id, and its content, metadata and embedding all come
\* from the same call, the one that stored last (the one the retriever's
\* own maps or table hold).
C22_SameIdAddsStoreOneCall ==
    \A id \in DocIds :
        (retriever.kind \in {"postgresql", "persistent"} /\ TwoAddsReturned(id))
            => /\ StoredDocument(id).document # Absent
               /\ StoredDocument(id).document = StoredDocument(id).embedding
               /\ StoredDocument(id).document = retriever.documents[id]

\* C29: in SimplePersistentRetriever and SimpleRetriever the documents map and
\* the embeddings map have the same key set after any sequence of addDocument
\* and removeDocument calls, however the calls interleave.
C29_MapsShareKeys ==
    retriever.kind \in {"persistent", "simple"}
        => Keys(retriever.documents) = Keys(retriever.embeddings)

\* a removal and an addition have both completed and a document is left
C29_Witness ==
    /\ retriever.kind \in {"persistent", "simple"}
    /\ \E c, d \in Writers :
          /\ retriever.calls[c].pc = "done"
          /\ retriever.calls[c].op = "removeDocument"
          /\ retriever.calls[d].pc = "done"
          /\ retriever.calls[d].op = "addDocument"
    /\ Keys(retriever.documents) # {}
    /\ Keys(retriever.documents) # DocIds

\* the outcome of an updateDocument call is waiting for its caller
Updated == last.op = "updateDocument"

\* C23: a successful updateDocument that sets content leaves the row with the
\* embedding generated from the new content, whatever embedding the caller
\* supplied; blank content is rejected without a statement being sent; an
\* update that sets no field sends no statement; and a call that sends no
\* statement leaves the store as it was.
C23_UpdateRegeneratesEmbedding ==
    /\ [](Updated =>
            /\ (last.ok /\ last.hasContent /\ HasDocument(documents, last.id))
                  => getDocument(documents, last.id).embedding = last.generated
            /\ (last.hasContent /\ last.blank) => (~last.ok /\ ~last.wrote)
            /\ (~last.hasTitle /\ ~last.hasContent /\ ~last.hasMetadata
                    /\ ~last.supplied.present) => (last.ok /\ ~last.wrote))
    /\ [][(last'.op = "updateDocument" /\ ~last'.wrote)
              => UNCHANGED <<documents, bm25_stats>>]_vars

\* an update with new content and an embedding of the caller's own has
\* succeeded on a stored row
C23_Witness ==
    /\ Updated
    /\ last.ok /\ last.wrote /\ last.hasContent
    /\ last.supplied.present
    /\ last.supplied # last.generated
    /\ HasDocument(documents, last.id)

\* C24: in bm25_score every query term contributes a non-negative amount to
\* a document's score (its idf is floored at zero), so a term that occurs in
\* more than half of the documents never lowers the sum of the other terms.
C24_TermContributionNonNegative ==
    (/\ last.op = "hybridSearch"
     /\ last.result.ok
     /\ last.result.scoredBy = "hybrid")
    => \A i \in 1..Len(documents) :
         LET terms == QueryTerms(last.args.query)
         IN  \A k \in 1..Len(terms) :
               TermScore(documents, terms[k],
                         to_tsvector(documents[i].content),
                         documents[i].word_count, bm25_stats) >= 0

\* the position of text in the log of the transaction, 0 when it is not there
Issued(text) ==
    IF \E i \in 1..Len(connection.call.log) : connection.call.log[i] = text
    THEN CHOOSE i \in 1..Len(connection.call.log) : connection.call.log[i] = text
    ELSE 0

TransactionSettled ==
    /\ connection.call.op = "transaction"
    /\ connection.call.pc \in {"resolved", "rejected"}
    /\ connection.call.error # NotConnected
    /\ connection.call.error # "acquire"

\* C25: transaction() releases the client exactly once on every path: the
\* callback succeeds or fails, BEGIN, COMMIT or ROLLBACK fails.  COMMIT is
\* issued only after the callback has resolved, and the call returns the
\* callback's result; after an error of the callback ROLLBACK is issued, the
\* call rejects and COMMIT is never issued.
C25_TransactionReleasesOnce ==
    connection.call.op = "transaction" =>
        /\ connection.call.released <= 1
        /\ TransactionSettled => connection.call.released = 1
        /\ Issued("COMMIT") # 0
              => /\ Issued("callback resolved") # 0
                 /\ Issued("callback resolved") < Issued("COMMIT")
        /\ connection.call.pc = "resolved"
              => /\ Issued("COMMIT") # 0
                 /\ connection.call.result = connection.call.value
                 /\ connection.call.result \in CallbackResults
        /\ Issued("callback rejected") # 0
              => /\ Issued("COMMIT") = 0
                 /\ Issued("ROLLBACK") # 0
                 /\ connection.call.pc # "resolved"

\* a transaction has rejected after its callback failed and the ROLLBACK
\* failed as well
C25_Witness ==
    /\ TransactionSettled
    /\ connection.call.pc = "rejected"
    /\ connection.call.error = "rollback"
    /\ Issued("callback rejected") # 0
    /\ connection.call.released = 1

\* C28: connect() resolves only when a test query has succeeded on the pool
\* the connection holds, also when an earlier connect() was rejected; query,
\* transaction and getClient fail with 'Database not connected' whenever there
\* is no pool.
C28_ConnectResolvesOnlyTested ==
    /\ (connection.call.op = "connect" /\ connection.call.pc = "resolved")
          => connection.tested
    /\ (connection.call.op \in {"query", "transaction", "getClient"}
          /\ ~connection.pool)
          => /\ connection.call.pc = "rejected"
             /\ connection.call.error = NotConnected

\* C26: initializeConnector never hands a caller a connector whose connect()
\* and initializeDatabase() have not both completed successfully, whatever
\* tool calls run concurrently and also after an earlier attempt failed.
C26_ConnectorHandedOutReady ==
    \A c \in Calls :
        server.calls[c].pc = "returned" => server.calls[c].ready

\* C27: a RAGService runs _doInitialize at most once for any number of
\* concurrent callers, also after that run has failed, and an operation uses
\* the retriever or the generator only after the run has succeeded.
C27_InitializesOnce ==
    /\ ragService.runs <= 1
    /\ \A c \in Calls :
          ragService.calls[c].pc = "using"
              => /\ ragService.promise = "fulfilled"
                 /\ ragService.components

\* the one run has failed, one caller has been rejected by it and another
\* call waits on the same promise
C27_Witness ==
    /\ ragService.promise = "rejected"
    /\ ragService.runs = 1
    /\ \E c, d \in Calls :
          /\ c # d
          /\ ragService.calls[c].pc = "rejected"
          /\ ragService.calls[d].pc = "awaiting"

\* the responses written so far that carry the id
ResponsesTo(id) ==
    { k \in 1..Len(stdio.written) : stdio.written[k].id = id }

\* C30: for every request received, other than notifications/initialized,
\* the server writes exactly one response, and it carries the id of the
\* request, also while several tools/call are in flight: none before the
\* tool has settled, one afterwards, one at once for every other request.
\* A parse error is written with id null.
C30_OneResponsePerRequest ==
    /\ \A id \in stdio.received :
          Cardinality(ResponsesTo(id)) = IF id \in stdio.pending THEN 0 ELSE 1
    /\ \A k \in 1..Len(stdio.written) :
          stdio.written[k].code = -32700 <=> stdio.written[k].id = Null

====
